---- MODULE Spec2Model ----
(***************************************************************************)
(* Model of the Vibe-Clone main process                                    *)
(* (apps/vibe-clone/electron/main.ts): the pane session registry, the      *)
(* settings vault and the agent router with its two backend clients.       *)
(*                                                                         *)
(* The host is a single-threaded event loop: every IPC handler, every      *)
(* process callback and every continuation of an async function runs to    *)
(* its next await without interleaving, so each of them is one action.     *)
(***************************************************************************)
EXTENDS Integers, Sequences, FiniteSets, TLC

VARIABLES
  vault,                   \* electron-store contents (VaultData)
  ptySessions,             \* Map<paneId, IPty>, as a set of <<key, value>> entries
  paneShellExe,            \* Map<paneId, string>
  activeAgentControllers,  \* Map<paneId, AbortController>
  procs,                   \* the pty processes whose exit is yet to be notified, by handle
  reqs,                    \* the agent:run invocations that have not returned, by controller
  last                     \* side effects of the most recent handler, in program order

vars == <<vault, ptySessions, paneShellExe, activeAgentControllers, procs, reqs, last>>

----------------------------------------------------------------------------
(* Bounds of the model *)

MaxProc == 2       \* pty processes alive or awaiting their exit notification
MaxReq == 2        \* agent:run invocations suspended at the same time

Panes == {"p1", "p2"}

----------------------------------------------------------------------------
(* JavaScript Map, as a set of <<key, value>> entries *)

MapHas(m, k) == \E e \in m : e[1] = k

\* Map.get for a key the map holds (callers test MapHas first: undefined
\* is the absence of an entry)
MapGet(m, k) == (CHOOSE e \in m : e[1] = k)[2]

MapHolds(m, k, v) == <<k, v>> \in m

\* Map.clear() in the place of Map.delete(key)
MapDelete_Clear(m, k) == {}

MapDelete(m, k) == {e \in m : e[1] # k}

MapSet(m, k, v) == MapDelete(m, k) \cup {<<k, v>>}

----------------------------------------------------------------------------
(* Effects of a handler: IPC events sent to the renderer, and calls made   *)
(* on collaborators, in the order the handler performs them.               *)

NoError == [msg |-> "", status |-> 0]

\* the payload of an agent:routed or agent:chunk event; detail is the error
\* a fallback notice describes
Event(type, route, modelName, chunk, stream, done, error, detail) ==
  [type |-> type, route |-> route,
   model |-> IF type # "agent:routed" THEN "" ELSE IF route = "local" THEN "Local" ELSE "Cloud",
   modelName |-> modelName, chunk |-> chunk, stream |-> stream, done |-> done,
   error |-> error, detail |-> detail]

NoEvent == Event("", "", "", <<>>, "", FALSE, NoError, NoError)

\* id is a process handle or a controller (0: none), arg a string, event
\* the payload of an agent event, answers the statuses a backend call has
\* been answered with (0: the fetch was rejected), data the text written to
\* a process or sent as a pty:data chunk
Effect(op, pane, id, arg, event, answers) ==
  [op |-> op, pane |-> pane, id |-> id, arg |-> arg, event |-> event, answers |-> answers,
   data |-> <<>>]

EffData(op, pane, id, data) ==
  [Effect(op, pane, id, "", NoEvent, <<>>) EXCEPT !.data = data]

EffEvent(op, pane, id, arg, event) == Effect(op, pane, id, arg, event, <<>>)

Eff(op, pane, id, arg) == Effect(op, pane, id, arg, NoEvent, <<>>)

\* the places of the effects of kind op on controller or handle id
Places(log, op, id) == {i \in 1..Len(log) : log[i].op = op /\ log[i].id = id}

----------------------------------------------------------------------------
(* Settings vault *)

ExecutionModes == {"sandboxed", "system-wide", "dual-stream"}

\* a stored credential: the empty string, or base64 of either ciphertext
\* of the platform facility (enc = "safeStorage") or the raw key itself
NoKey == [enc |-> "", raw |-> ""]

VaultDefaults ==
  [cloudApiKeyEncrypted |-> NoKey,
   cloudApiBaseUrl |-> "https://api.openai.com/v1/chat/completions",
   localModel |-> "llama3.2",
   cloudModel |-> "gpt-4o",
   executionMode |-> "sandboxed",
   systemWideAcknowledged |-> FALSE]

getVault(key) == vault[key]

\* safeStorage.isEncryptionAvailable(), as observed by one call
EncryptionAvailability == BOOLEAN

\* safeStorage.encryptString(raw).toString("base64") when the platform
\* facility is available, plain base64 of the raw key otherwise.
encryptKey(raw, encryptionAvailable) ==
  IF raw = "" THEN NoKey
  ELSE IF encryptionAvailable THEN [enc |-> "safeStorage", raw |-> raw]
  ELSE [enc |-> "base64", raw |-> raw]

\* decryptString throws on a buffer that is not ciphertext (caught: "");
\* the plain decoding of ciphertext is a non-empty string that is not the key.
decryptKey(encoded, encryptionAvailable) ==
  IF encoded = NoKey THEN ""
  ELSE IF encryptionAvailable
    THEN (IF encoded.enc = "safeStorage" THEN encoded.raw ELSE "")
    ELSE (IF encoded.enc = "base64" THEN encoded.raw ELSE "undecodable")

(* vault:set: next is the partial update, a record of the fields the caller
   gives.  The acknowledgement is stored before the mode check, so a
   rejected call keeps it. *)
Given(next, field) == field \in DOMAIN next

VaultAfterSet(v, next, encryptionAvailable) ==
  LET v1 == IF Given(next, "systemWideAcknowledged")
              THEN [v EXCEPT !.systemWideAcknowledged = next.systemWideAcknowledged]
              ELSE v
      rejected == /\ Given(next, "executionMode")
                  /\ next.executionMode = "system-wide"
                  /\ ~v1.systemWideAcknowledged
      v2 == IF Given(next, "cloudApiKey")
              THEN [v1 EXCEPT !.cloudApiKeyEncrypted = encryptKey(next.cloudApiKey, encryptionAvailable)]
              ELSE v1
      v3 == IF Given(next, "cloudApiBaseUrl")
              THEN [v2 EXCEPT !.cloudApiBaseUrl = next.cloudApiBaseUrl] ELSE v2
      v4 == IF Given(next, "localModel")
              THEN [v3 EXCEPT !.localModel = next.localModel] ELSE v3
      v5 == IF Given(next, "cloudModel")
              THEN [v4 EXCEPT !.cloudModel = next.cloudModel] ELSE v4
      v6 == IF Given(next, "executionMode")
              THEN [v5 EXCEPT !.executionMode = next.executionMode] ELSE v5
  IN [vault |-> IF rejected THEN v1 ELSE v6, rejected |-> rejected]

VaultSet(next, encryptionAvailable) ==
  LET r == VaultAfterSet(vault, next, encryptionAvailable)
  IN /\ vault' = r.vault
     /\ last' = <<Eff("vault:set", "", 0, IF r.rejected THEN "throw" ELSE "ok")>>
     /\ UNCHANGED <<ptySessions, paneShellExe, activeAgentControllers, procs, reqs>>

----------------------------------------------------------------------------
(* Session registry *)

PwshExe == "C:\\Program Files\\PowerShell\\7\\pwsh.exe"
PowerShellExe == "C:\\Windows\\System32\\WindowsPowerShell\\v1.0\\powershell.exe"
CmdExe == "C:\\Windows\\System32\\cmd.exe"

\* process.env.ComSpec ?? cmd.exe is the third candidate
ShellCandidates == <<PwshExe, PowerShellExe, CmdExe>>

\* candidates.find(fs.existsSync) ?? cmd.exe, for the set of files that exist
shellPath(existing) ==
  IF \E i \in 1..Len(ShellCandidates) : ShellCandidates[i] \in existing
    THEN ShellCandidates[CHOOSE i \in 1..Len(ShellCandidates) :
            /\ ShellCandidates[i] \in existing
            /\ \A j \in 1..(i - 1) : ShellCandidates[j] \notin existing]
    ELSE CmdExe

toLowerCase(exe) ==
  CASE exe = PwshExe -> "c:\\program files\\powershell\\7\\pwsh.exe"
    [] exe = PowerShellExe -> "c:\\windows\\system32\\windowspowershell\\v1.0\\powershell.exe"
    [] exe = CmdExe -> "c:\\windows\\system32\\cmd.exe"

HomeDir == "homedir"
ProjectRoot == "projectRoot"

\* A process is "running" from its spawn until it is killed or exits; its
\* exit notification (onExit) is then delivered once: "killed" is a process
\* whose notification is still to come.  A handle whose notification has
\* arrived is garbage: its slot is "free".
NoProc == [pane |-> "", state |-> "free", cwd |-> "", envMode |-> "", exe |-> ""]

ProcIds == 1..MaxProc

Running(pid) == procs[pid].state = "running"

FreeProcIds(ps) == {i \in DOMAIN ps : ps[i].state = "free"}

NewProcId(ps) == CHOOSE i \in FreeProcIds(ps) : \A j \in FreeProcIds(ps) : i <= j

\* destroyPtySession: the registry after it, the process table after it and
\* the effects it performs
DestroyEffects(paneId) ==
  IF MapHas(ptySessions, paneId)
    THEN <<Eff("kill", paneId, MapGet(ptySessions, paneId), "")>>
    ELSE <<>>

\* destroyPtySession without the p.kill() of line 107
ProcsAfterDestroy_NoKill(paneId) == procs

ProcsAfterDestroy(paneId) ==
  IF MapHas(ptySessions, paneId)
    THEN [procs EXCEPT ![MapGet(ptySessions, paneId)].state =
            IF @ = "running" THEN "killed" ELSE @]
    ELSE procs

\* createPtySession without its first line
SessionAlreadyRegistered_NoGuard(sessions, paneId) == FALSE

SessionAlreadyRegistered(sessions, paneId) == MapHas(sessions, paneId)

\* the shell executable recorded before the spawn is attempted
SpawnFailed_ExeRegistered(sessions, exes, ps, paneId, exe) ==
  [sessions |-> sessions, exes |-> MapSet(exes, paneId, toLowerCase(exe)), procs |-> ps,
   eff |-> <<Eff("pty:data", paneId, 0, "Failed to start shell")>>]

\* the catch block of lines 131-135: one synthetic chunk, then return
SpawnFailed(sessions, exes, ps, paneId, exe) ==
  [sessions |-> sessions, exes |-> exes, procs |-> ps,
   eff |-> <<Eff("pty:data", paneId, 0, "Failed to start shell")>>]

(* createPtySession, applied to the registry (sessions, exes, ps) a caller
   hands it; spawnOk and existing are the environment's answers. *)
CreateResult(sessions, exes, ps, paneId, spawnOk, existing) ==
  IF SessionAlreadyRegistered(sessions, paneId)
    THEN [sessions |-> sessions, exes |-> exes, procs |-> ps, eff |-> <<>>]
  ELSE
    LET mode == getVault("executionMode")
        cwd == IF mode = "system-wide" THEN HomeDir ELSE ProjectRoot
        exe == shellPath(existing)
        pid == NewProcId(ps)
    IN IF ~spawnOk
         THEN SpawnFailed(sessions, exes, ps, paneId, exe)
         ELSE [sessions |-> MapSet(sessions, paneId, pid),
               exes |-> MapSet(exes, paneId, toLowerCase(exe)),
               procs |-> [ps EXCEPT ![pid] = [pane |-> paneId, state |-> "running",
                                              cwd |-> cwd, envMode |-> mode, exe |-> exe]],
               eff |-> <<Eff("spawn", paneId, pid, exe)>>]

PaneCreate(paneId, spawnOk, existing) ==
  LET r == CreateResult(ptySessions, paneShellExe, procs, paneId, spawnOk, existing)
  IN /\ SessionAlreadyRegistered(ptySessions, paneId) \/ FreeProcIds(procs) # {}
     /\ ptySessions' = r.sessions
     /\ paneShellExe' = r.exes
     /\ procs' = r.procs
     /\ last' = <<Eff("pane:create", paneId, 0, "")>> \o r.eff
     /\ UNCHANGED <<vault, activeAgentControllers, reqs>>

\* pane:restart without the destroyPtySession call of line 392
PaneRestart_CreateOnly(paneId, spawnOk, existing) ==
  LET r == CreateResult(ptySessions, paneShellExe, procs, paneId, spawnOk, existing)
  IN /\ FreeProcIds(procs) # {}
     /\ ptySessions' = r.sessions
     /\ paneShellExe' = r.exes
     /\ procs' = r.procs
     /\ last' = <<Eff("pane:restart", paneId, 0, "")>> \o r.eff
     /\ UNCHANGED <<vault, activeAgentControllers, reqs>>

PaneRestart(paneId, spawnOk, existing) ==
  LET r == CreateResult(MapDelete(ptySessions, paneId), MapDelete(paneShellExe, paneId),
                        ProcsAfterDestroy(paneId), paneId, spawnOk, existing)
  IN /\ FreeProcIds(procs) # {}
     /\ ptySessions' = r.sessions
     /\ paneShellExe' = r.exes
     /\ procs' = r.procs
     /\ last' = <<Eff("pane:restart", paneId, 0, "")>> \o DestroyEffects(paneId) \o r.eff
     /\ UNCHANGED <<vault, activeAgentControllers, reqs>>

\* the test of line 143 on the pane identifier alone
StaleExit_PaneOnly(sessions, paneId, pid) == ~MapHas(sessions, paneId)

\* every exit notification taken for a stale one
StaleExit_Always(sessions, paneId, pid) == TRUE

\* line 143: the exiting handle is not the one registered for its pane
StaleExit(sessions, paneId, pid) == ~MapHolds(sessions, paneId, pid)

(* p.onExit callback of process pid: the process has exited by itself or
   was killed; a notification of a handle that is not the registered one is
   ignored. *)
OnExit(pid) ==
  LET paneId == procs[pid].pane
      stale == StaleExit(ptySessions, paneId, pid)
  IN /\ procs[pid].state \in {"running", "killed"}
     /\ procs' = [procs EXCEPT ![pid] = NoProc]
     /\ ptySessions' = IF stale THEN ptySessions ELSE MapDelete(ptySessions, paneId)
     /\ paneShellExe' = IF stale THEN paneShellExe ELSE MapDelete(paneShellExe, paneId)
     /\ last' = <<Eff("onExit", paneId, pid, "")>> \o
                  (IF stale THEN <<>> ELSE <<Eff("pty:exit", paneId, pid, "")>>)
     /\ UNCHANGED <<vault, activeAgentControllers, reqs>>

(* p.onData callback of process pid, lines 137-139: a chunk of output is
   forwarded on the channel of the pane the process was spawned for.  A
   process can deliver output until its exit is notified, after kill() as
   well; id names the process the chunk comes from. *)
OnData(pid, chunk) ==
  /\ procs[pid].state \in {"running", "killed"}
  /\ last' = <<Eff("onData", procs[pid].pane, pid, ""),
               EffData("pty:data", procs[pid].pane, pid, chunk)>>
  /\ UNCHANGED <<vault, ptySessions, paneShellExe, activeAgentControllers, procs, reqs>>

----------------------------------------------------------------------------
(* Text: a string is a sequence of lexemes; "[THOUGHT]" and "[ACTION]" are
   the two markers, " " and "\n" are white space. *)

Whitespace == {" ", "\n"}

includes(text, tok) == \E i \in 1..Len(text) : text[i] = tok

IndexOf(text, tok) ==
  IF includes(text, tok)
    THEN CHOOSE i \in 1..Len(text) : text[i] = tok /\ \A j \in 1..(i - 1) : text[j] # tok
    ELSE 0

\* String.prototype.replace(tok, ""): the first occurrence only
replaceFirst(text, tok) ==
  LET i == IndexOf(text, tok)
  IN IF i = 0 THEN text ELSE SubSeq(text, 1, i - 1) \o SubSeq(text, i + 1, Len(text))

RECURSIVE trimStart(_)
trimStart(text) ==
  IF text # <<>> /\ Head(text) \in Whitespace THEN trimStart(Tail(text)) ELSE text

RECURSIVE trimEnd(_)
trimEnd(text) ==
  IF text # <<>> /\ text[Len(text)] \in Whitespace
    THEN trimEnd(SubSeq(text, 1, Len(text) - 1)) ELSE text

trim(text) == trimEnd(trimStart(text))

\* text.split(tok): the list of the pieces between occurrences of tok
RECURSIVE split(_, _)
split(text, tok) ==
  LET i == IndexOf(text, tok)
  IN IF i = 0 THEN <<text>>
     ELSE <<SubSeq(text, 1, i - 1)>> \o split(SubSeq(text, i + 1, Len(text)), tok)

----------------------------------------------------------------------------
(* Shell lines: a line is a sequence of lexemes, each a maximal run of word
   characters, one white space character or one punctuation mark, so that
   \b of a regular expression falls at the ends of the word lexemes. *)

Interrupt == <<"\\u0003">>

\* the i flag of the patterns, on the words the lines are made of
lower(w) ==
  CASE w = "RMDIR" -> "rmdir"
    [] w = "Del" -> "del"
    [] w = "CD" -> "cd"
    [] w = "Reg" -> "reg"
    [] w = "LS" -> "ls"
    [] OTHER -> w

\* t[i..j] is white space, one character at least: \s+
Blank(t, i, j) == i <= j /\ \A k \in i..j : t[k] \in Whitespace

HighRiskWords ==
  {"del", "erase", "rmdir", "rd", "format", "shutdown", "reboot", "takeown", "icacls"}

\* blockedPatterns, lines 166-169
MatchesBlockedPattern(t) ==
  \/ \E i \in 1..Len(t) : lower(t[i]) \in HighRiskWords
  \/ \E i \in 1..(Len(t) - 2) :
       lower(t[i]) = "remove" /\ t[i + 1] = "-" /\ lower(t[i + 2]) = "item"
  \/ \E i \in 1..Len(t), j \in 1..Len(t) :
       lower(t[i]) = "reg" /\ Blank(t, i + 1, j - 1) /\ lower(t[j]) = "delete"

ChangeDirectoryWords == {"cd", "chdir", "sl", "pushd"}

\* the first n lexemes of t are one of cd, chdir, set-location, sl, pushd
ChangeDirectoryPrefix(t, n) ==
  \/ n = 1 /\ Len(t) >= 1 /\ lower(t[1]) \in ChangeDirectoryWords
  \/ n = 3 /\ Len(t) >= 3
           /\ lower(t[1]) = "set" /\ t[2] = "-" /\ lower(t[3]) = "location"

\* /^(cd|chdir|set-location|sl|pushd)\s+\.\./i, line 177
MatchesTraversal(t) ==
  \E n \in {1, 3} :
    /\ ChangeDirectoryPrefix(t, n)
    /\ \E j \in (n + 2)..Len(t) : Blank(t, n + 1, j - 1) /\ t[j] = ".."

HighRiskMessage == "Blocked high-risk command in sandboxed mode."
TraversalMessage ==
  "Directory traversal outside the project root is blocked in sandboxed mode."

\* the filter with the mode test of its first line dropped
FilterApplies_AnyMode(mode) == TRUE

\* line 156: the filter acts in sandboxed mode only
FilterApplies(mode) == mode = "sandboxed"

\* sanitizeCommandForMode: the line it returns, or the message of the
\* Error it throws
sanitizeCommandForMode(command, mode) ==
  LET trimmed == trim(command)
      pass == [ok |-> TRUE, line |-> command, message |-> ""]
  IN IF ~FilterApplies(mode) THEN pass
     ELSE IF trimmed = <<>> THEN pass
     ELSE IF MatchesBlockedPattern(trimmed)
       THEN [ok |-> FALSE, line |-> <<>>, message |-> HighRiskMessage]
     ELSE IF MatchesTraversal(trimmed)
       THEN [ok |-> FALSE, line |-> <<>>, message |-> TraversalMessage]
     ELSE pass

\* every shell taken for cmd.exe
endsWithCmdExe_AnyExe(exe) == TRUE

\* exe.endsWith("cmd.exe"), on the values paneShellExe holds
endsWithCmdExe(exe) == exe \in {CmdExe, toLowerCase(CmdExe)}

normalizeShellCommandForExe(command, exe) ==
  LET trimmed == trim(command)
  IN IF ~endsWithCmdExe(exe) THEN command
     ELSE IF trimmed = <<"ls">> THEN <<"dir">>
     ELSE IF Len(trimmed) >= 2 /\ trimmed[1] = "ls" /\ trimmed[2] = " "
       THEN <<"dir", " ">> \o SubSeq(trimmed, 3, Len(trimmed))
     ELSE command

\* p?.write(text) for the handle registered for the pane, if any
WriteEffects(paneId, text) ==
  IF MapHas(ptySessions, paneId)
    THEN <<EffData("write", paneId, MapGet(ptySessions, paneId), text)>>
    ELSE <<>>

\* the interrupt branch taken for no line at all
IsInterrupt_Never(line) == FALSE

\* line 406
IsInterrupt(line) == line = Interrupt

\* shell:line under the mode its session was spawned with, kept per session
ShellLine_SpawnMode(paneId, line) ==
  LET mode == IF MapHas(ptySessions, paneId)
                THEN procs[MapGet(ptySessions, paneId)].envMode
                ELSE getVault("executionMode")
      r == sanitizeCommandForMode(line, mode)
      exe == IF MapHas(paneShellExe, paneId) THEN MapGet(paneShellExe, paneId) ELSE ""
      normalized == normalizeShellCommandForExe(r.line, exe)
  IN /\ last' = <<EffData("shell:line", paneId, 0, line)>> \o
                  (IF IsInterrupt(line) THEN WriteEffects(paneId, Interrupt)
                   ELSE IF r.ok THEN WriteEffects(paneId, normalized \o <<"\r">>)
                   ELSE <<EffData("pty:data", paneId, 0,
                                  <<"\r\n[Vibe-Clone:", mode, "] ", r.message, "\r\n">>)>>)
     /\ UNCHANGED <<vault, ptySessions, paneShellExe, activeAgentControllers, procs, reqs>>

(* ipcMain.handle("shell:line") *)
ShellLine(paneId, line) ==
  LET mode == getVault("executionMode")
      r == sanitizeCommandForMode(line, mode)
      exe == IF MapHas(paneShellExe, paneId) THEN MapGet(paneShellExe, paneId) ELSE ""
      normalized == normalizeShellCommandForExe(r.line, exe)
  IN /\ last' = <<EffData("shell:line", paneId, 0, line)>> \o
                  (IF IsInterrupt(line) THEN WriteEffects(paneId, Interrupt)
                   ELSE IF r.ok THEN WriteEffects(paneId, normalized \o <<"\r">>)
                   ELSE <<EffData("pty:data", paneId, 0,
                                  <<"\r\n[Vibe-Clone:", mode, "] ", r.message, "\r\n">>)>>)
     /\ UNCHANGED <<vault, ptySessions, paneShellExe, activeAgentControllers, procs, reqs>>

(* ipcMain.handle("pane:resize"): cols and rows are forwarded to the handle
   registered for the pane, if any *)
PaneResize(paneId, cols, rows) ==
  /\ last' = <<EffData("pane:resize", paneId, 0, <<cols, rows>>)>> \o
               (IF MapHas(ptySessions, paneId)
                  THEN <<EffData("resize", paneId, MapGet(ptySessions, paneId), <<cols, rows>>)>>
                  ELSE <<>>)
  /\ UNCHANGED <<vault, ptySessions, paneShellExe, activeAgentControllers, procs, reqs>>

\* shell:input handled as shell:line handles a line: filtered, normalised
\* and terminated
ShellInput_AsLine(paneId, input) ==
  LET mode == getVault("executionMode")
      r == sanitizeCommandForMode(input, mode)
      exe == IF MapHas(paneShellExe, paneId) THEN MapGet(paneShellExe, paneId) ELSE ""
  IN /\ last' = <<EffData("shell:input", paneId, 0, input)>> \o
                  (IF r.ok
                     THEN WriteEffects(paneId, normalizeShellCommandForExe(r.line, exe) \o <<"\r">>)
                     ELSE <<>>)
     /\ UNCHANGED <<vault, ptySessions, paneShellExe, activeAgentControllers, procs, reqs>>

(* ipcMain.handle("shell:input"): lines 423-426 return when no session is
   registered, line 427 writes the input as given *)
ShellInput(paneId, input) ==
  /\ last' = <<EffData("shell:input", paneId, 0, input)>> \o WriteEffects(paneId, input)
  /\ UNCHANGED <<vault, ptySessions, paneShellExe, activeAgentControllers, procs, reqs>>

----------------------------------------------------------------------------
(* Slash command interceptor of the renderer: a line is a sequence of
   lexemes, as a shell line is; "/local" and "/cloud" are lexemes. *)

\* trimmed.match(/^\/cmd(?:\s+(.*))?$/): the command alone, or the command,
\* white space and a rest with no line break ("." stops at one)
SlashMatch(trimmed, cmd) ==
  /\ trimmed # <<>> /\ trimmed[1] = cmd
  /\ \/ Len(trimmed) = 1
     \/ /\ trimmed[2] \in Whitespace
        /\ ~includes(trimStart(Tail(trimmed)), "\n")

ParsedInput(kind, route, line, prompt) ==
  [kind |-> kind, route |-> route, line |-> line, prompt |-> prompt]

\* apps/vibe-clone/src/lib/slashRouter.ts
parseInputLine(line) ==
  LET trimmed == trim(line)
  IN IF trimmed = <<>> THEN ParsedInput("shell", "", <<>>, <<>>)
     ELSE IF SlashMatch(trimmed, "/local")
       THEN ParsedInput("agent", "local", <<>>, trim(trimStart(Tail(trimmed))))
     ELSE IF SlashMatch(trimmed, "/cloud")
       THEN ParsedInput("agent", "cloud", <<>>, trim(trimStart(Tail(trimmed))))
     ELSE ParsedInput("shell", "", line, <<>>)

\* src/lib/slashRouter.ts of the root application: /local only
RootParseInputLine(line) ==
  LET trimmed == trim(line)
  IN IF trimmed = <<>> THEN ParsedInput("shell", "", <<>>, <<>>)
     ELSE IF SlashMatch(trimmed, "/local")
       THEN ParsedInput("agent", "local", <<>>, trim(trimStart(Tail(trimmed))))
     ELSE ParsedInput("shell", "", line, <<>>)

(* A line is parsed by the interceptor of either application; the effects
   are the call with its argument and the value it returns. *)
ParseInput(app, line) ==
  LET parsed == IF app = "root" THEN RootParseInputLine(line) ELSE parseInputLine(line)
  IN /\ last' = <<[EffData("parseInputLine", "", 0, line) EXCEPT !.arg = app],
                  [EffData(parsed.kind, "", 0,
                           IF parsed.kind = "agent" THEN parsed.prompt ELSE parsed.line)
                     EXCEPT !.arg = parsed.route]>>
     /\ UNCHANGED <<vault, ptySessions, paneShellExe, activeAgentControllers, procs, reqs>>

----------------------------------------------------------------------------
(* Backend clients *)

\* a loop that runs once more
MaxAttempts_Three == 2 + 1

MaxAttempts == 2         \* for (attempt = 0; attempt < 2; attempt += 1)

Backends == {"local", "cloud"}

Cancelled == [msg |-> "Agent request was cancelled.", status |-> 0]
MissingCredential == [msg |-> "Cloud API key missing in Settings Vault. Add a key or use /local.",
                      status |-> 0]
UnknownError(b) ==
  [msg |-> IF b = "local" THEN "Unknown local agent error" ELSE "Unknown cloud agent error",
   status |-> 0]
StatusError(b, status) ==
  [msg |-> IF b = "local" THEN "Ollama error" ELSE "Cloud API error", status |-> status]
\* what fetch rejects with: the timer's abort, or a network failure
FetchRejection(kind) == [msg |-> kind, status |-> 0]

shouldRetryStatus(status) == status = 408 \/ status = 429 \/ status >= 500

ResponseOk(status) == status >= 200 /\ status <= 299

(* combineSignals: the controller a backend call tests in its catch block.
   It is aborted at creation when the request's token already is, and by
   the listener when the token is aborted later. *)
combineSignals(externalAborted) == externalAborted

(* One suspended agent:run invocation: the variables of its closure.  pc is
   the backend whose fetch the invocation awaits ("done" once the handler
   has returned, "free" for a slot no invocation holds); fetches counts,
   per backend, the network requests the invocation has issued and model
   is the model name each call read from the vault.  answers are the
   statuses the call in progress has been answered with, emitted the
   kinds of the events the invocation has sent so far. *)
NoCalls == [b \in Backends |-> [fetches |-> 0, model |-> ""]]

NewRequest(paneId, route, prompt, mode) ==
  [pane |-> paneId, route |-> route, prompt |-> prompt, mode |-> mode,
   aborted |-> FALSE, callAborted |-> FALSE,
   pc |-> "start", attempt |-> 0, lastError |-> NoError,
   effectiveRoute |-> route, calls |-> NoCalls, answers |-> <<>>, emitted |-> <<>>]

NoRequest == [NewRequest("", "", "", "") EXCEPT !.pc = "free"]

ReqIds == 1..MaxReq

FreeReqIds(rs) == {i \in DOMAIN rs : rs[i].pc = "free"}

NewReqId(rs) == CHOOSE i \in FreeReqIds(rs) : \A j \in FreeReqIds(rs) : i <= j

\* AbortController.abort() of the request's token: the combined controller
\* of the call in progress follows through its listener
Abort(q) ==
  [q EXCEPT !.aborted = TRUE,
            !.callAborted = IF q.pc \in Backends THEN TRUE ELSE @]

\* the fetch of the next loop iteration; fetchWithTimeout passes its own
\* timer's signal to fetch, so the request is issued whatever the state of
\* the combined controller
IssueFetch(q, b, attempt) ==
  [q EXCEPT !.pc = b, !.attempt = attempt, !.calls[b].fetches = @ + 1]

Throw(q, b, error) ==
  [q |-> q, out |-> "throw", text |-> <<>>, error |-> error]

Return(q, b, text) ==
  [q |-> q, out |-> "return", text |-> text, error |-> NoError]

Fetching(q) == [q |-> q, out |-> "fetch", text |-> <<>>, error |-> NoError]

\* a loop that ends after any iteration that did not return
NextAttempt_NoRetry(q, b, attempt) ==
  Throw(q, b, IF q.lastError = NoError THEN UnknownError(b) ELSE q.lastError)

\* the loop header after iteration `attempt` ended without return or throw
NextAttempt(q, b, attempt) ==
  IF attempt + 1 < MaxAttempts
    THEN Fetching(IssueFetch(q, b, attempt + 1))
    ELSE Throw(q, b, IF q.lastError = NoError THEN UnknownError(b) ELSE q.lastError)

\* runCloudAgentWithSignal without the test of lines 266-268
CredentialMissing_Unchecked(b, apiKey) == FALSE

\* lines 266-268: the cloud client has no key to send
CredentialMissing(b, apiKey) == b = "cloud" /\ apiKey = ""

(* runLocalAgentWithSignal / runCloudAgentWithSignal up to the first await *)
StartCall(q, b, encryptionAvailable) ==
  LET apiKey == decryptKey(getVault("cloudApiKeyEncrypted"), encryptionAvailable)
      model == IF b = "local" THEN getVault("localModel") ELSE getVault("cloudModel")
      q1 == [q EXCEPT !.pc = b, !.attempt = 0, !.lastError = NoError, !.answers = <<>>,
                      !.callAborted = combineSignals(q.aborted)]
  IN IF CredentialMissing(b, apiKey)
       THEN Throw(q1, b, MissingCredential)
       ELSE Fetching(IssueFetch([q1 EXCEPT !.calls[b].model = model], b, 0))

(* The continuation of the retry loop when the awaited fetch settles with
   resp: a response with a status and a body, or a rejection. *)
ResumeCall(q0, resp) ==
  LET b == q0.pc
      attempt == q0.attempt
      q == [q0 EXCEPT !.answers = Append(@, resp.status)]
      caught(error) ==
        IF q.callAborted
          THEN Throw(q, b, Cancelled)
          ELSE NextAttempt([q EXCEPT !.lastError = error], b, attempt)
  IN IF resp.kind # "status" THEN caught(FetchRejection(resp.kind))
     ELSE IF ~ResponseOk(resp.status)
       THEN IF shouldRetryStatus(resp.status) /\ attempt = 0
              THEN NextAttempt(q, b, attempt)
              ELSE caught(StatusError(b, resp.status))
     ELSE Return(q, b, resp.body)

----------------------------------------------------------------------------
(* Agent router: ipcMain.handle("agent:run") and its continuations *)

AgentRoutes == {"local", "cloud"}

\* the notification built from the cloud route whatever route it is given
RoutedEvent_Cloud(route) ==
  Event("agent:routed", "cloud", getVault("cloudModel"), <<>>, "", FALSE, NoError, NoError)

RoutedEvent(route) ==
  Event("agent:routed", route,
        IF route = "local" THEN getVault("localModel") ELSE getVault("cloudModel"),
        <<>>, "", FALSE, NoError, NoError)

ChunkEvent(chunk, stream, done) ==
  Event("agent:chunk", "", "", chunk, stream, done, NoError, NoError)

\* the fallback notice sent with done: true, as the other chunks of the
\* handler are
FallbackEvent_Done(cloudError) ==
  Event("agent:chunk", "", "",
        <<"Cloud route failed: ", cloudError.msg, "\nFalling back to local model.\n">>,
        "action", TRUE, NoError, cloudError)

FallbackEvent(cloudError) ==
  Event("agent:chunk", "", "",
        <<"Cloud route failed: ", cloudError.msg, "\nFalling back to local model.\n">>,
        "action", FALSE, NoError, cloudError)

\* the error chunk of the outer catch block without its done field
ErrorEvent_NotDone(error) == Event("agent:chunk", "", "", <<>>, "", FALSE, error, NoError)

ErrorEvent(error) == Event("agent:chunk", "", "", <<>>, "", TRUE, error, NoError)

\* a handler in progress: the invocation's record, its controller and the
\* effects so far; mainWindow.webContents.send adds one
EventKind(ev) ==
  IF ev.type = "agent:routed" THEN ev.route
  ELSE IF ev.error # NoError THEN "error"
  ELSE IF ev.stream = "thought" THEN "thought"
  ELSE IF ev.done THEN "final"
  ELSE "notice"

Emit(h, ev) ==
  [h EXCEPT !.q.emitted = Append(@, EventKind(ev)),
            !.eff = Append(@, EffEvent(ev.type, h.q.pane, h.id, EventKind(ev), ev))]

emitAgentRouted(h, route) == Emit(h, RoutedEvent(route))

\* response shaping with the label of the route the invocation was given
Shape_RequestedRoute(h, text) ==
  IF h.q.mode = "dual-stream" /\ includes(text, "[ACTION]")
    THEN LET parts == split(text, "[ACTION]")
             thought == trim(replaceFirst(parts[1], "[THOUGHT]"))
             action == trim(parts[2])
         IN Emit(Emit(h, ChunkEvent(thought \o <<"\n">>, "thought", FALSE)),
                 ChunkEvent(action \o <<"\n">>, "action", TRUE))
    ELSE LET routePrefix ==
               IF h.q.route = "local"
                 THEN <<"[Local:", getVault("localModel"), "]\n">>
                 ELSE <<"[Cloud:", getVault("cloudModel"), "]\n">>
         IN Emit(h, ChunkEvent(routePrefix \o text \o <<"\n">>, "action", TRUE))

\* response shaping, lines 469-488
Shape(h, text) ==
  IF h.q.mode = "dual-stream" /\ includes(text, "[ACTION]")
    THEN LET parts == split(text, "[ACTION]")
             thought == trim(replaceFirst(parts[1], "[THOUGHT]"))
             action == trim(parts[2])
         IN Emit(Emit(h, ChunkEvent(thought \o <<"\n">>, "thought", FALSE)),
                 ChunkEvent(action \o <<"\n">>, "action", TRUE))
    ELSE LET routePrefix ==
               IF h.q.effectiveRoute = "local"
                 THEN <<"[Local:", getVault("localModel"), "]\n">>
                 ELSE <<"[Cloud:", getVault("cloudModel"), "]\n">>
         IN Emit(h, ChunkEvent(routePrefix \o text \o <<"\n">>, "action", TRUE))

\* a handler that goes back to await its backend after the done chunk
Finished_StillAwaiting(h) == h

Finished(h) == [h EXCEPT !.q.pc = "done"]

\* the catch block without its test of controller.signal.aborted
FallbackAllowed_Always(q) == TRUE

\* the guard of the fallback, line 455: a cloud failure of a request whose
\* token is aborted is rethrown
FallbackAllowed(q) == ~q.aborted

\* effectiveRoute = "local" and the second notification placed after the
\* inner try statement instead of inside its catch block
FellBack_AnyCloudRoute(q) == q.route = "cloud"

\* the call that returned is the local call of the catch block, lines 463-465
FellBack(q) == q.pc = "local" /\ q.route = "cloud"

\* the inner try statement of lines 451-466 placed around both branches, so
\* that a failure of the local call of line 449 falls back as well
RouterContinue_FallbackFromLocal(h, oc, encryptionAvailable) ==
  LET h0 == [h EXCEPT !.q = oc.q]
      b == oc.q.pc
  IN CASE oc.out = "fetch" ->
            [h0 EXCEPT !.eff = Append(@, Eff("fetch", oc.q.pane, h.id, b))]
       [] oc.out = "return" ->
            LET h1 == IF FellBack(oc.q)
                        THEN emitAgentRouted([h0 EXCEPT !.q.effectiveRoute = "local"], "local")
                        ELSE h0
            IN Finished(Shape(h1, oc.text))
       [] oc.out = "throw" ->
            IF (b = "cloud" \/ Len(oc.q.emitted) = 1) /\ FallbackAllowed(oc.q)
              THEN LET h1 == Emit(h0, FallbackEvent(oc.error))
                       oc2 == StartCall(h1.q, "local", encryptionAvailable)
                   IN [h1 EXCEPT !.q = oc2.q,
                                 !.eff = Append(@, Eff("fetch", oc.q.pane, h.id, "local"))]
              ELSE Finished(Emit(h0, ErrorEvent(oc.error)))

(* The handler from the point where a backend call has returned, thrown or
   suspended on a fetch (oc), to its next await or its end. *)
RouterContinue(h, oc, encryptionAvailable) ==
  LET h0 == [h EXCEPT !.q = oc.q]
      b == oc.q.pc
  IN CASE oc.out = "fetch" ->
            [h0 EXCEPT !.eff = Append(@, Eff("fetch", oc.q.pane, h.id, b))]
       [] oc.out = "return" ->
            LET h1 == IF FellBack(oc.q)
                        THEN emitAgentRouted([h0 EXCEPT !.q.effectiveRoute = "local"], "local")
                        ELSE h0
            IN Finished(Shape(h1, oc.text))
       [] oc.out = "throw" ->
            IF b = "cloud" /\ FallbackAllowed(oc.q)
              THEN LET h1 == Emit(h0, FallbackEvent(oc.error))
                       oc2 == StartCall(h1.q, "local", encryptionAvailable)
                   IN [h1 EXCEPT !.q = oc2.q,
                                 !.eff = Append(@, Eff("fetch", oc.q.pane, h.id, "local"))]
              ELSE Finished(Emit(h0, ErrorEvent(oc.error)))

\* the finally block without its identity test of line 498
ControllersAfter_AnyController(ctl, h) ==
  IF h.q.pc = "done" THEN MapDelete(ctl, h.q.pane) ELSE ctl

\* finally, lines 497-501: an invocation that has ended unregisters its own
\* controller only
ControllersAfter(ctl, h) ==
  IF h.q.pc = "done" /\ MapHolds(ctl, h.q.pane, h.id) THEN MapDelete(ctl, h.q.pane) ELSE ctl

FinallyEffects(ctl, h) ==
  IF h.q.pc = "done" /\ MapHolds(ctl, h.q.pane, h.id)
    THEN <<Eff("unregister", h.q.pane, h.id, "")>> ELSE <<>>

\* the closure of an invocation that has returned is garbage
Settled(h) == IF h.q.pc = "done" THEN NoRequest ELSE h.q

\* agent:run, agent:cancel and pane:destroy without the abort() call
AbortRegistered_NoAbort(rs, ctl, paneId) == rs

\* activeAgentControllers.get(paneId)?.abort(), on the invocation table
AbortRegistered(rs, ctl, paneId) ==
  IF MapHas(ctl, paneId) THEN [rs EXCEPT ![MapGet(ctl, paneId)] = Abort(@)] ELSE rs

AbortEffects(ctl, paneId) ==
  IF MapHas(ctl, paneId) THEN <<Eff("abort", paneId, MapGet(ctl, paneId), "")>> ELSE <<>>

AgentRun(paneId, route, prompt, encryptionAvailable) ==
  LET mode == getVault("executionMode")
      rs1 == AbortRegistered(reqs, activeAgentControllers, paneId)
      id == NewReqId(reqs)
      ctl1 == MapSet(activeAgentControllers, paneId, id)
      h0 == [q |-> NewRequest(paneId, route, prompt, mode),
             eff |-> <<Eff("agent:run", paneId, id, route)>>
                       \o AbortEffects(activeAgentControllers, paneId)
                       \o <<Eff("register", paneId, id, "")>>,
             id |-> id]
      h1 == emitAgentRouted(h0, route)
      h2 == RouterContinue(h1, StartCall(h1.q, route, encryptionAvailable), encryptionAvailable)
  IN /\ FreeReqIds(reqs) # {}
     /\ reqs' = [rs1 EXCEPT ![id] = Settled(h2)]
     /\ activeAgentControllers' = ControllersAfter(ctl1, h2)
     /\ last' = h2.eff \o FinallyEffects(ctl1, h2)
     /\ UNCHANGED <<vault, ptySessions, paneShellExe, procs>>

(* The awaited fetch of invocation id settles with resp; the first effect
   names the backend that answered, the statuses of the call so far and the
   route the invocation was given *)
AgentResume(id, resp, encryptionAvailable) ==
  LET q == reqs[id]
      h0 == [q |-> q,
             eff |-> <<[Effect("resume", q.pane, id, q.pc, NoEvent, Append(q.answers, resp.status))
                          EXCEPT !.data = <<q.route>>]>>,
             id |-> id]
      h1 == RouterContinue(h0, ResumeCall(q, resp), encryptionAvailable)
  IN /\ q.pc \in Backends
     /\ reqs' = [reqs EXCEPT ![id] = Settled(h1)]
     /\ activeAgentControllers' = ControllersAfter(activeAgentControllers, h1)
     /\ last' = h1.eff \o FinallyEffects(activeAgentControllers, h1)
     /\ UNCHANGED <<vault, ptySessions, paneShellExe, procs>>

\* agent:cancel without the delete of line 435
AgentCancel_AbortOnly(paneId) ==
  /\ reqs' = AbortRegistered(reqs, activeAgentControllers, paneId)
  /\ last' = <<Eff("agent:cancel", paneId, 0, "")>> \o AbortEffects(activeAgentControllers, paneId)
  /\ UNCHANGED <<vault, ptySessions, paneShellExe, procs, activeAgentControllers>>

AgentCancel(paneId) ==
  /\ reqs' = AbortRegistered(reqs, activeAgentControllers, paneId)
  /\ activeAgentControllers' = MapDelete(activeAgentControllers, paneId)
  /\ last' = <<Eff("agent:cancel", paneId, 0, "")>> \o AbortEffects(activeAgentControllers, paneId)
  /\ UNCHANGED <<vault, ptySessions, paneShellExe, procs>>

PaneDestroy(paneId) ==
  /\ procs' = ProcsAfterDestroy(paneId)
  /\ ptySessions' = MapDelete(ptySessions, paneId)
  /\ paneShellExe' = MapDelete(paneShellExe, paneId)
  /\ reqs' = AbortRegistered(reqs, activeAgentControllers, paneId)
  /\ activeAgentControllers' = MapDelete(activeAgentControllers, paneId)
  /\ last' = <<Eff("pane:destroy", paneId, 0, "")>> \o DestroyEffects(paneId)
               \o AbortEffects(activeAgentControllers, paneId)
  /\ UNCHANGED vault

----------------------------------------------------------------------------
(* Specifications *)

Init ==
  /\ vault = VaultDefaults
  /\ ptySessions = {}
  /\ paneShellExe = {}
  /\ activeAgentControllers = {}
  /\ procs = [i \in ProcIds |-> NoProc]
  /\ reqs = [i \in ReqIds |-> NoRequest]
  /\ last = <<>>

\* what the file system can hold when shellPath probes it
ShellInstalls == {{PowerShellExe, CmdExe}, {}}

\* vault:set calls of the settings panel that matter to the session registry
SessionVaultUpdates ==
  {[executionMode |-> "system-wide", systemWideAcknowledged |-> TRUE],
   [executionMode |-> "sandboxed"]}

NextSession ==
  \/ \E p \in Panes, ok \in BOOLEAN, ex \in ShellInstalls : PaneCreate(p, ok, ex)
  \/ \E p \in Panes : PaneDestroy(p)
  \/ \E p \in Panes, ok \in BOOLEAN, ex \in ShellInstalls : PaneRestart(p, ok, ex)
  \/ \E pid \in ProcIds : OnExit(pid)
  \/ \E pid \in ProcIds : OnData(pid, <<"out">>)
  \/ \E next \in SessionVaultUpdates, av \in EncryptionAvailability : VaultSet(next, av)

Spec == Init /\ [][NextSession]_vars

\* what a backend can answer to one request, and how a fetch can fail
ResponseBodies ==
  {<<"answer">>,
   <<"[THOUGHT]", "why", " ", "[ACTION]", " ", "do">>,
   <<"[THOUGHT]", "why", "[ACTION]", "do", "[ACTION]", "more">>}

ErrorStatuses == {401, 408, 429, 500}

StatusResponse(status, body) == [kind |-> "status", status |-> status, body |-> body]

Rejection(kind) == [kind |-> kind, status |-> 0, body |-> <<>>]

Responses ==
  {StatusResponse(200, b) : b \in ResponseBodies}
    \cup {StatusResponse(s, <<>>) : s \in ErrorStatuses}
    \cup {Rejection("timeout")}

Prompts == {"prompt"}

\* the router keeps its state per pane: it is explored on one pane
AgentPanes == {"p1"}

\* the platform facility is available on the one platform the application
\* runs on (it quits unless win32)
AgentEncryption == {TRUE}

(* The store is persistent: the application starts with the vault an
   earlier run left.  The agent router is explored from the vaults that
   vault:set calls of an earlier run produce from the defaults. *)
AgentVaultUpdates ==
  {[cloudApiKey |-> "sk-key"], [cloudApiKey |-> ""],
   [cloudApiKey |-> "sk-key", executionMode |-> "dual-stream"],
   [executionMode |-> "dual-stream"]}

PersistedVaults ==
  {VaultAfterSet(VaultDefaults, next, av).vault :
     next \in AgentVaultUpdates, av \in AgentEncryption}

AgentStart ==
  /\ ptySessions = {}
  /\ paneShellExe = {}
  /\ activeAgentControllers = {}
  /\ procs = [i \in ProcIds |-> NoProc]
  /\ reqs = [i \in ReqIds |-> NoRequest]
  /\ last = <<>>

(* One invocation at a time: the renderer sends agent:run when the
   invocation before it has settled.  The backends answer with every kind
   of response. *)
InitCall == vault \in PersistedVaults /\ AgentStart

Idle == \A id \in ReqIds : reqs[id].pc = "free"

NextCall ==
  \/ \E p \in AgentPanes, route \in AgentRoutes, prompt \in Prompts, av \in AgentEncryption :
       Idle /\ AgentRun(p, route, prompt, av)
  \/ \E id \in ReqIds, resp \in Responses, av \in AgentEncryption :
       AgentResume(id, resp, av)
  \/ \E p \in AgentPanes : AgentCancel(p)
  \/ \E p \in AgentPanes : PaneDestroy(p)

SpecCall == InitCall /\ [][NextCall]_vars

(* One invocation at a time while the settings panel changes the
   configured models: vault:set runs between the handler steps of an
   invocation. *)
NextModel ==
  \/ \E p \in AgentPanes, route \in AgentRoutes, prompt \in Prompts, av \in AgentEncryption :
       Idle /\ AgentRun(p, route, prompt, av)
  \/ \E id \in ReqIds, av \in AgentEncryption,
        resp \in {StatusResponse(200, <<"answer">>), StatusResponse(401, <<>>)} :
       AgentResume(id, resp, av)
  \/ \E av \in AgentEncryption,
        next \in {[localModel |-> "mistral"], [localModel |-> "llama3.2"],
                  [cloudModel |-> "gpt-4o-mini"], [cloudModel |-> "gpt-4o"]} :
       VaultSet(next, av)

SpecModel == InitCall /\ [][NextModel]_vars

(* Overlapping invocations: agent:run arrives while earlier invocations of
   the pane are suspended.  One response of each kind is drawn: a success,
   a transient status, a permanent status and a rejection. *)
OverlapVaultUpdates == {[cloudApiKey |-> "sk-key"], [cloudApiKey |-> ""]}

OverlapVaults ==
  {VaultAfterSet(VaultDefaults, next, av).vault :
     next \in OverlapVaultUpdates, av \in AgentEncryption}

OverlapResponses ==
  {StatusResponse(200, <<"[THOUGHT]", "why", " ", "[ACTION]", " ", "do">>),
   StatusResponse(500, <<>>), StatusResponse(401, <<>>), Rejection("timeout")}

InitAgent == vault \in OverlapVaults /\ AgentStart

NextAgent ==
  \/ \E p \in AgentPanes, route \in AgentRoutes, prompt \in Prompts, av \in AgentEncryption :
       AgentRun(p, route, prompt, av)
  \/ \E id \in ReqIds, resp \in OverlapResponses, av \in AgentEncryption :
       AgentResume(id, resp, av)
  \/ \E p \in AgentPanes : AgentCancel(p)
  \/ \E p \in AgentPanes : PaneDestroy(p)

SpecAgent == InitAgent /\ [][NextAgent]_vars

\* fetch without the timer of fetchWithTimeout: nothing makes an
\* unanswered request settle
FetchSettles_NoTimer(id) == FALSE /\ UNCHANGED vars

(* fetchWithTimeout, lines 197-198: the timer aborts a fetch that has not
   been answered after timeoutMs, so the fetch an invocation awaits settles
   with a response or a rejection and the continuation runs. *)
FetchSettles(id) ==
  \E resp \in OverlapResponses, av \in AgentEncryption : AgentResume(id, resp, av)

(* Termination is explored with an invocation and the one that supersedes
   it: agent:run arrives while at most one earlier invocation is suspended. *)
OneSuspended == \A i \in ReqIds, j \in ReqIds : (reqs[i].pc \in Backends /\ reqs[j].pc \in Backends) => i = j

NextAgentFair ==
  \/ \E p \in AgentPanes, route \in AgentRoutes, prompt \in Prompts, av \in AgentEncryption :
       OneSuspended /\ AgentRun(p, route, prompt, av)
  \/ \E id \in ReqIds, resp \in OverlapResponses, av \in AgentEncryption :
       AgentResume(id, resp, av)
  \/ \E p \in AgentPanes : AgentCancel(p)
  \/ \E p \in AgentPanes : PaneDestroy(p)

SpecAgentFair ==
  /\ InitAgent /\ [][NextAgentFair]_vars
  /\ \A id \in ReqIds : WF_vars(FetchSettles(id))

(* Shell lines submitted to one pane while its session is created and
   destroyed and the execution mode changes. *)
ShellLines ==
  {Interrupt,
   <<"rmdir", " ", "/", "s", " ", "project">>,
   <<" ", "RMDIR", " ", "x">>,
   <<"echo", " ", "x", " ", "&", " ", "Del", " ", "y">>,
   <<"Remove", "-", "Item", " ", "x">>,
   <<"Reg", " ", " ", "delete", " ", "k">>,
   <<"ls", " ", "rd">>,
   <<"cd", " ", "..">>,
   <<"CD", " ", " ", "..", "/", "..">>,
   <<"Set", "-", "Location", " ", "..">>,
   <<"cd", "..">>,
   <<"cd", " ", "src">>,
   <<"ls">>,
   <<"ls", " ", "src">>,
   <<"LS">>,
   <<"delete", " ", "x">>,
   <<" ">>}

\* raw input of the terminal: keystrokes, and text that shell:line would
\* reject, rewrite or special-case
RawInputs ==
  {Interrupt,
   <<"q">>,
   <<"rmdir", " ", "/", "s", " ", "project">>,
   <<"cd", " ", "..">>,
   <<"ls">>}

\* cols and rows of a resized terminal, as the renderer reports them
TerminalSizes == {<<"120", "40">>}

ShellPanes == {"p1"}

ShellVaultUpdates ==
  {[executionMode |-> "system-wide", systemWideAcknowledged |-> TRUE],
   [executionMode |-> "sandboxed"],
   [executionMode |-> "dual-stream"]}

NextShell ==
  \/ \E p \in ShellPanes, ok \in BOOLEAN, ex \in ShellInstalls : PaneCreate(p, ok, ex)
  \/ \E p \in ShellPanes : PaneDestroy(p)
  \/ \E pid \in ProcIds : OnExit(pid)
  \/ \E next \in ShellVaultUpdates, av \in EncryptionAvailability : VaultSet(next, av)
  \/ \E p \in ShellPanes, line \in ShellLines : ShellLine(p, line)
  \/ \E p \in ShellPanes, input \in RawInputs : ShellInput(p, input)
  \/ \E p \in ShellPanes, size \in TerminalSizes : PaneResize(p, size[1], size[2])

SpecShell == Init /\ [][NextShell]_vars

(* Two panes side by side, each with its session and its agent requests:
   every pane operation of the renderer, the process callbacks and the
   continuations of the agent requests, in sandboxed mode with a cloud key
   stored.  The renderer opens a session when fewer processes than panes
   are alive or awaiting their exit notification, and sends agent:run for
   a pane whose earlier invocations have returned. *)
InitPanes ==
  /\ vault = VaultAfterSet(VaultDefaults, [cloudApiKey |-> "sk-key"], TRUE).vault
  /\ AgentStart

NextPanes ==
  \/ \E p \in Panes, ok \in BOOLEAN :
       /\ Cardinality(ProcIds \ FreeProcIds(procs)) < Cardinality(Panes)
       /\ PaneCreate(p, ok, {})
  \/ \E p \in Panes : PaneDestroy(p)
  \/ \E p \in Panes, ok \in BOOLEAN :
       /\ Cardinality(ProcIds \ FreeProcIds(procs)) < Cardinality(Panes)
       /\ PaneRestart(p, ok, {})
  \/ \E p \in Panes, size \in TerminalSizes : PaneResize(p, size[1], size[2])
  \/ \E p \in Panes, line \in {<<"ls">>, <<"rmdir", " ", "/", "s", " ", "project">>} :
       ShellLine(p, line)
  \/ \E p \in Panes : ShellInput(p, <<"q">>)
  \/ \E pid \in ProcIds : OnExit(pid)
  \/ \E p \in Panes, route \in AgentRoutes :
       /\ \A id \in ReqIds : reqs[id].pc \in Backends => reqs[id].pane # p
       /\ AgentRun(p, route, "prompt", TRUE)
  \/ \E id \in ReqIds, resp \in {StatusResponse(200, <<"answer">>), StatusResponse(401, <<>>)} :
       AgentResume(id, resp, TRUE)
  \/ \E p \in Panes : AgentCancel(p)

SpecPanes == InitPanes /\ [][NextPanes]_vars

(* The settings vault alone: vault:set calls with the partial updates the
   handler accepts, on a platform whose encryption facility is or is not
   available at the time of the call. *)
VaultUpdates ==
  {[cloudApiKey |-> "sk-key"], [cloudApiKey |-> "sk-other"], [cloudApiKey |-> ""],
   [executionMode |-> "sandboxed"], [executionMode |-> "dual-stream"],
   [executionMode |-> "system-wide"],
   [systemWideAcknowledged |-> TRUE], [systemWideAcknowledged |-> FALSE],
   [executionMode |-> "system-wide", systemWideAcknowledged |-> TRUE],
   [executionMode |-> "system-wide", systemWideAcknowledged |-> FALSE],
   [localModel |-> "mistral"], [cloudModel |-> "gpt-4o-mini"]}

NextVault ==
  \E next \in VaultUpdates, av \in EncryptionAvailability : VaultSet(next, av)

SpecVault == Init /\ [][NextVault]_vars

(* Lines typed into a pane: a command or another first word, white space
   or none after it, a prompt of none, one or several words, with and
   without white space around the line. *)
InputLines ==
  {pre \o <<cmd>> \o sep \o rest \o post :
     pre \in {<<>>, <<" ">>},
     cmd \in {"/local", "/cloud", "/localx", "ls"},
     sep \in {<<>>, <<" ">>, <<" ", " ">>, <<"\n">>},
     rest \in {<<>>, <<"hi">>, <<"hi", " ", "there">>, <<"hi", "\n", "there">>},
     post \in {<<>>, <<" ">>}}
    \cup {<<>>, <<" ">>}

NextInput ==
  \E app \in {"vibe-clone", "root"}, line \in InputLines : ParseInput(app, line)

SpecInput == Init /\ [][NextInput]_vars

----------------------------------------------------------------------------
(* The main process of the root application, electron/main.ts: the same
   registry of sessions, with a filter that accepts every line in every
   mode and a vault without the acknowledgement flag. *)

\* the filter of apps/vibe-clone in the place of the root application's
RootSanitizeCommandForMode_Filtering(command, mode) == sanitizeCommandForMode(command, mode)

\* sanitizeCommandForMode of the root application: void mode; return command
RootSanitizeCommandForMode(command, mode) ==
  [ok |-> TRUE, line |-> command, message |-> ""]

(* ipcMain.handle("pane:create") of the root application: its
   createPtySession takes the same steps as the one of apps/vibe-clone *)
RootPaneCreate(paneId, spawnOk, existing) ==
  LET r == CreateResult(ptySessions, paneShellExe, procs, paneId, spawnOk, existing)
  IN /\ SessionAlreadyRegistered(ptySessions, paneId) \/ FreeProcIds(procs) # {}
     /\ ptySessions' = r.sessions
     /\ paneShellExe' = r.exes
     /\ procs' = r.procs
     /\ last' = <<Eff("pane:create", paneId, 0, "")>> \o r.eff
     /\ UNCHANGED <<vault, activeAgentControllers, reqs>>

(* ipcMain.handle("vault:set") of the root application: every field given
   is stored, and true is returned *)
RootVaultSet(next, encryptionAvailable) ==
  LET key == IF Given(next, "cloudApiKey")
               THEN encryptKey(next.cloudApiKey, encryptionAvailable) ELSE NoKey
  IN /\ vault' = [k \in DOMAIN vault |->
                    CASE k = "cloudApiKeyEncrypted" /\ Given(next, "cloudApiKey") -> key
                      [] k = "cloudApiBaseUrl" /\ Given(next, k) -> next[k]
                      [] k = "localModel" /\ Given(next, k) -> next[k]
                      [] k = "cloudModel" /\ Given(next, k) -> next[k]
                      [] k = "executionMode" /\ Given(next, k) -> next[k]
                      [] OTHER -> vault[k]]
     /\ last' = <<Eff("vault:set", "", 0, "ok")>>
     /\ UNCHANGED <<ptySessions, paneShellExe, activeAgentControllers, procs, reqs>>

(* ipcMain.handle("shell:line") of the root application *)
RootShellLine(paneId, line) ==
  LET mode == getVault("executionMode")
      r == RootSanitizeCommandForMode(line, mode)
      exe == IF MapHas(paneShellExe, paneId) THEN MapGet(paneShellExe, paneId) ELSE ""
      normalized == normalizeShellCommandForExe(r.line, exe)
  IN /\ last' = <<EffData("shell:line", paneId, 0, line)>> \o
                  (IF IsInterrupt(line) THEN WriteEffects(paneId, Interrupt)
                   ELSE IF r.ok THEN WriteEffects(paneId, normalized \o <<"\r">>)
                   ELSE <<EffData("pty:data", paneId, 0,
                                  <<"\r\n[Vibe-ADE:", mode, "] ", r.message, "\r\n">>)>>)
     /\ UNCHANGED <<vault, ptySessions, paneShellExe, activeAgentControllers, procs, reqs>>

NextRoot ==
  \/ \E p \in ShellPanes, ok \in BOOLEAN, ex \in ShellInstalls : RootPaneCreate(p, ok, ex)
  \/ \E mode \in ExecutionModes, av \in EncryptionAvailability :
       RootVaultSet([executionMode |-> mode], av)
  \/ \E p \in ShellPanes, line \in ShellLines : RootShellLine(p, line)

SpecRoot == Init /\ [][NextRoot]_vars

----------------------------------------------------------------------------
(* Properties of the session registry, under Spec *)

LiveSessions(p) == {pid \in ProcIds : procs[pid].pane = p /\ Running(pid)}

Entries(m, k) == {e \in m : e[1] = k}

(* C1: in every reachable state each pane has at most one live session, the
   one the registry holds for it; pane:create for a pane that has a
   registered session spawns no process and leaves the registry as it is. *)
C1_AtMostOneLiveSession ==
  /\ [](\A p \in Panes :
          /\ Cardinality(LiveSessions(p)) <= 1
          /\ Cardinality(Entries(ptySessions, p)) <= 1
          /\ \A pid \in LiveSessions(p) : MapHolds(ptySessions, p, pid))
  /\ [][\A p \in Panes, ok \in BOOLEAN, ex \in ShellInstalls :
          (PaneCreate(p, ok, ex) /\ MapHas(ptySessions, p))
            => /\ ptySessions' = ptySessions
               /\ paneShellExe' = paneShellExe
               /\ procs' = procs
               /\ \A i \in 1..Len(last') : last'[i].op \notin {"spawn", "kill", "pty:data"}]_vars

\* pane:create has just been a no-op on a pane whose session was restarted
\* before, the killed process still awaiting its exit notification
C1_Witness ==
  \E p \in Panes :
    /\ last = <<Eff("pane:create", p, 0, "")>>
    /\ MapHas(ptySessions, p)
    /\ \E pid \in ProcIds : procs[pid].pane = p /\ procs[pid].state = "killed"

----------------------------------------------------------------------------
(* Properties of the agent router: of overlapping invocations under
   SpecAgent, of the backend call of one invocation under SpecCall *)

Suspended(id) == reqs[id].pc \in Backends

Outstanding(p) == {id \in ReqIds : Suspended(id) /\ reqs[id].pane = p}

Sent(log, id, kinds) ==
  {i \in 1..Len(log) : log[i].op = "agent:chunk" /\ log[i].id = id /\ log[i].arg \in kinds}

(* C2: agent:run aborts the controller registered for the pane before it
   registers the new one and before the new invocation issues its first
   network request; the registry never holds two controllers for a pane. *)
C2_CancelBeforeRegister ==
  /\ [](\A p \in AgentPanes : Cardinality(Entries(activeAgentControllers, p)) <= 1)
  /\ [][\A p \in AgentPanes, route \in AgentRoutes, prompt \in Prompts, av \in AgentEncryption :
          (AgentRun(p, route, prompt, av) /\ MapHas(activeAgentControllers, p))
            => LET old == MapGet(activeAgentControllers, p)
                   new == NewReqId(reqs)
               IN /\ reqs'[old].aborted
                  /\ new # old
                  /\ \A r \in Places(last', "register", new) :
                       \E a \in Places(last', "abort", old) : a < r
                  /\ \A f \in Places(last', "fetch", new) :
                       /\ \E a \in Places(last', "abort", old) : a < f
                       /\ \E r \in Places(last', "register", new) : r < f
                  /\ Places(last', "register", new) # {}]_vars

\* agent:run has just superseded a suspended invocation of the pane and
\* issued the first network request of the new one
C2_Witness ==
  \E old \in ReqIds, new \in ReqIds :
    /\ old # new
    /\ Len(last) >= 1
    /\ last[1].op = "agent:run" /\ last[1].id = new
    /\ Places(last, "abort", old) # {}
    /\ Places(last, "fetch", new) # {}
    /\ Suspended(old) /\ reqs[old].aborted
    /\ MapHolds(activeAgentControllers, reqs[new].pane, new)

(* C3: no pane ever has two invocations with a network request
   outstanding. *)
C3_OneRequestInFlight ==
  \A p \in AgentPanes : Cardinality(Outstanding(p)) <= 1

(* C4: once the controller of an invocation has been aborted, no agent:chunk
   event is sent for that invocation. *)
C4_NoChunkAfterCancel ==
  [][\A id \in ReqIds :
       (Suspended(id) /\ reqs[id].aborted)
         => Sent(last', id, {"notice", "thought", "final", "error"}) = {}]_vars

(* C5: an invocation aborted while its backend had not answered ends with
   the cancellation error and sends no thought or action chunk that carries
   the backend's text, whatever the backend answers. *)
C5_CancelledOutcome ==
  [][\A id \in ReqIds :
       (Suspended(id) /\ reqs[id].aborted)
         => /\ Sent(last', id, {"thought", "final"}) = {}
            /\ reqs'[id].pc = "free"
                 => \E i \in Sent(last', id, {"error"}) : last'[i].event.error = Cancelled]_vars

(* C6: the local fallback is never started for an invocation whose
   controller is aborted: the failure of its cloud call ends the
   invocation with that failure, without a fallback notice and without a
   request to the local backend. *)
C6_NoFallbackAfterCancel ==
  [][\A id \in ReqIds, resp \in OverlapResponses, av \in AgentEncryption :
       (reqs[id].pc = "cloud" /\ reqs[id].aborted /\ AgentResume(id, resp, av))
         => /\ reqs'[id].pc # "local"
            /\ Sent(last', id, {"notice"}) = {}
            /\ \A f \in Places(last', "fetch", id) : last'[f].arg # "local"
            /\ ResumeCall(reqs[id], resp).out = "throw"
                 => /\ reqs'[id].pc = "free"
                    /\ \E i \in Sent(last', id, {"error"}) :
                         last'[i].event.error = ResumeCall(reqs[id], resp).error]_vars

\* the cloud call of an aborted invocation has just failed and the
\* invocation has ended with the cancellation error
C6_Witness ==
  /\ Len(last) >= 2
  /\ last[1].op = "resume" /\ last[1].arg = "cloud"
  /\ last[1].answers \in {<<401>>, <<0>>, <<401, 401>>, <<0, 500>>}
  /\ Sent(last, last[1].id, {"notice"}) = {}
  /\ \E i \in Sent(last, last[1].id, {"error"}) : last[i].event.error = Cancelled
  /\ reqs[last[1].id].pc = "free"

(* C7: once the controller of an invocation has been aborted, its backend
   call issues no further network request: an abort during the first
   attempt suppresses the retry even when that attempt is answered with a
   transient status, and the call fails with the cancellation error. *)
C7_NoRetryAfterCancel ==
  [][\A id \in ReqIds, resp \in OverlapResponses, av \in AgentEncryption :
       (reqs[id].aborted /\ AgentResume(id, resp, av))
         => /\ \A f \in Places(last', "fetch", id) : last'[f].arg # reqs[id].pc
            /\ (reqs[id].attempt = 0 /\ resp.kind = "status" /\ shouldRetryStatus(resp.status))
                 => ResumeCall(reqs[id], resp).error = Cancelled]_vars

(* C8: a backend call issues at most two network requests: a first attempt
   answered with a transient status is followed by exactly one retry, and
   a failure of the second attempt ends the call with that failure and
   without a third request. *)
C8_AtMostTwoRequests ==
  /\ [](\A id \in ReqIds, b \in Backends : reqs[id].calls[b].fetches <= 2)
  /\ [][\A id \in ReqIds, resp \in Responses, av \in AgentEncryption :
          AgentResume(id, resp, av)
            => LET b == reqs[id].pc
                   oc == ResumeCall(reqs[id], resp)
                   failed == resp.kind # "status" \/ ~ResponseOk(resp.status)
               IN /\ (reqs[id].attempt = 0 /\ resp.kind = "status"
                        /\ shouldRetryStatus(resp.status))
                       => /\ reqs'[id].pc = b /\ reqs'[id].attempt = 1
                          /\ reqs'[id].calls[b].fetches = 2
                          /\ Cardinality(Places(last', "fetch", id)) = 1
                  /\ (reqs[id].attempt = 1 /\ failed)
                       => /\ oc.out = "throw"
                          /\ reqs[id].calls[b].fetches = 2
                          /\ \A f \in Places(last', "fetch", id) : last'[f].arg # b
                          /\ \E i \in 1..Len(last') :
                               /\ last'[i].op = "agent:chunk" /\ last'[i].id = id
                               /\ oc.error \in {last'[i].event.error, last'[i].event.detail}]_vars

\* the retry of a call whose first attempt was answered 500 has just failed
C8_Witness ==
  /\ Len(last) >= 2
  /\ last[1].op = "resume"
  /\ last[1].answers \in {<<500, 500>>, <<500, 401>>, <<500, 0>>}
  /\ \E i \in 1..Len(last) : last[i].op = "agent:chunk" /\ last[i].arg \in {"error", "notice"}

(* C9: a first attempt answered with an error status that is not transient
   ends the call with that failure, without a second network request. *)
C9_NoRetryOnPermanentStatus ==
  [][\A id \in ReqIds, resp \in Responses, av \in AgentEncryption :
       (AgentResume(id, resp, av) /\ reqs[id].attempt = 0 /\ resp.kind = "status"
          /\ ~ResponseOk(resp.status) /\ ~shouldRetryStatus(resp.status))
         => /\ \A f \in Places(last', "fetch", id) : last'[f].arg # reqs[id].pc
            /\ ResumeCall(reqs[id], resp).out = "throw"]_vars

(* C10: an invocation on the cloud route whose cloud call is answered 500
   and then, on the retry, 200 completes on the cloud route: the local
   backend has not been called, no fallback notice has been sent, and the
   one routed notification of the invocation names cloud. *)
C10_RetryKeepsCloudRoute ==
  [][\A id \in ReqIds, resp \in Responses, av \in AgentEncryption :
       (AgentResume(id, resp, av) /\ reqs[id].route = "cloud" /\ reqs[id].pc = "cloud"
          /\ reqs[id].answers = <<500>> /\ resp.kind = "status" /\ resp.status = 200)
         => /\ reqs'[id].pc = "free"
            /\ reqs[id].calls["local"].fetches = 0
            /\ reqs[id].emitted = <<"cloud">>
            /\ \A i \in 1..Len(last') :
                 last'[i].id = id => last'[i].op \in {"resume", "agent:chunk", "unregister"}
            /\ Sent(last', id, {"notice", "error"}) = {}
            /\ \E i \in Sent(last', id, {"final"}) : i = Len(last') \/ last'[i + 1].op = "unregister"
            /\ \A i \in Sent(last', id, {"final"}) :
                 reqs[id].mode # "dual-stream" => last'[i].event.chunk[1] = "[Cloud:"]_vars

\* a cloud call answered 500 and then 200 has just completed its invocation
C10_Witness ==
  /\ Len(last) >= 2
  /\ last[1].op = "resume" /\ last[1].arg = "cloud" /\ last[1].answers = <<500, 200>>
  /\ Sent(last, last[1].id, {"final"}) # {}

(* C11: a cloud call of an invocation on the cloud route that fails while
   the invocation's controller is not aborted is followed by the fallback
   notice, a chunk that is not done and carries the failure, and then by a
   request to the local backend under the same controller; when the local
   call returns, the last routed notification of the invocation names
   local and a response delivered as one chunk starts with the local
   label; when the local call fails, the invocation ends with that
   failure. *)
C11_FallbackToLocal ==
  /\ [][\A id \in ReqIds, resp \in Responses, av \in AgentEncryption :
          (reqs[id].route = "cloud" /\ AgentResume(id, resp, av))
            => LET oc == ResumeCall(reqs[id], resp)
                   labelled == ~(reqs[id].mode = "dual-stream" /\ includes(oc.text, "[ACTION]"))
               IN /\ (reqs[id].pc = "cloud" /\ ~reqs[id].aborted /\ oc.out = "throw")
                       => /\ reqs'[id].pc = "local" /\ reqs'[id].attempt = 0
                          /\ reqs'[id].calls["local"].fetches = 1
                          /\ activeAgentControllers' = activeAgentControllers
                          /\ \E n \in Sent(last', id, {"notice"}) :
                               /\ ~last'[n].event.done
                               /\ last'[n].event.detail = oc.error
                               /\ includes(last'[n].event.chunk, oc.error.msg)
                               /\ n + 1 = Len(last')
                               /\ last'[n + 1] = Eff("fetch", reqs[id].pane, id, "local")
                          /\ Sent(last', id, {"final", "error", "thought"}) = {}
                  /\ (reqs[id].pc = "local" /\ oc.out = "return")
                       => /\ reqs'[id].pc = "free"
                          /\ \E r \in Places(last', "agent:routed", id) :
                               /\ last'[r].event.route = "local"
                               /\ last'[r].event.model = "Local"
                               /\ \A i \in Sent(last', id, {"thought", "final"}) : r < i
                          /\ Cardinality(Places(last', "agent:routed", id)) = 1
                          /\ Sent(last', id, {"final"}) # {}
                          /\ \A i \in Sent(last', id, {"final"}) :
                               labelled => last'[i].event.chunk[1] = "[Local:"
                  /\ (reqs[id].pc = "local" /\ oc.out = "throw")
                       => /\ reqs'[id].pc = "free"
                          /\ \E i \in Sent(last', id, {"error"}) :
                               last'[i].event.error = oc.error /\ last'[i].event.done
                          /\ Sent(last', id, {"final", "thought", "notice"}) = {}
                          /\ Places(last', "agent:routed", id) = {}]_vars
  /\ [][\A p \in AgentPanes, prompt \in Prompts, av \in AgentEncryption :
          (decryptKey(getVault("cloudApiKeyEncrypted"), av) = ""
             /\ FreeReqIds(reqs) # {} /\ AgentRun(p, "cloud", prompt, av))
            => LET id == NewReqId(reqs)
               IN /\ reqs'[id].pc = "local" /\ reqs'[id].calls["cloud"].fetches = 0
                  /\ \E n \in Sent(last', id, {"notice"}) :
                       /\ last'[n].event.detail = MissingCredential
                       /\ n + 1 = Len(last')
                       /\ last'[n + 1] = Eff("fetch", p, id, "local")]_vars

\* the local call of a fallback has just returned and the invocation has
\* sent the routed notification for local and its response
C11_Witness ==
  /\ Len(last) >= 3
  /\ last[1].op = "resume" /\ last[1].arg = "local"
  /\ Places(last, "agent:routed", last[1].id) # {}
  /\ Sent(last, last[1].id, {"final"}) # {}
  /\ reqs[last[1].id].pc = "free"

----------------------------------------------------------------------------
(* Further properties of the session registry, under Spec *)

(* C12: the exit notification of a process that pane:restart or
   pane:destroy has killed leaves both registry maps as they are, so the
   session that replaced it stays registered and live, and sends no
   pty:exit event, whenever the notification arrives. *)
C12_StaleExitIgnored ==
  /\ [](\A pid \in ProcIds :
          procs[pid].state = "killed" => ~MapHolds(ptySessions, procs[pid].pane, pid))
  /\ [][\A pid \in ProcIds :
          (procs[pid].state = "killed" /\ OnExit(pid))
            => /\ ptySessions' = ptySessions
               /\ paneShellExe' = paneShellExe
               /\ \A p \in Panes : LiveSessions(p)' = LiveSessions(p)
               /\ \A i \in 1..Len(last') : last'[i].op # "pty:exit"]_vars

\* the process that pane:restart replaced has just notified its exit while
\* the replacement is registered and running
C12_Witness ==
  \E p \in Panes, new \in ProcIds :
    /\ Len(last) = 1
    /\ last[1].op = "onExit" /\ last[1].pane = p /\ last[1].id # new
    /\ MapHolds(ptySessions, p, new) /\ Running(new)
    /\ MapHas(paneShellExe, p)

----------------------------------------------------------------------------
(* Properties of shell:line, under SpecShell *)

RmdirProject == <<"rmdir", " ", "/", "s", " ", "project">>

Rejected(line) ==
  MatchesBlockedPattern(trim(line)) \/ MatchesTraversal(trim(line))

StartsWithLs(line) ==
  trim(line) = <<"ls">> \/ (Len(trim(line)) >= 2 /\ trim(line)[1] = "ls" /\ trim(line)[2] = " ")

\* shell:line for pane p is the handler that has just run
Submitted(p) == Len(last) >= 1 /\ last[1].op = "shell:line" /\ last[1].pane = p

NoticeOf(eff) ==
  /\ eff.op = "pty:data"
  /\ Len(eff.data) = 5
  /\ eff.data[4] \in {HighRiskMessage, TraversalMessage}

(* C13: in sandboxed mode shell:line writes nothing to the pane's process
   for a line that matches a blocked pattern or the traversal pattern
   (`rmdir /s project` is one) and sends one policy notice; in the other
   modes it writes that line and the line terminator to the registered
   process, the line as submitted unless it is an ls command for
   cmd.exe. *)
C13_SandboxBlocksHighRisk ==
  /\ [](Rejected(RmdirProject) /\ RmdirProject \in ShellLines)
  /\ [][\A p \in ShellPanes :
          LET line == last'[1].data
          IN (Submitted(p)' /\ line # Interrupt /\ Rejected(line))
            => IF getVault("executionMode") = "sandboxed"
                 THEN /\ \A i \in 1..Len(last') : last'[i].op # "write"
                      /\ Len(last') = 2 /\ NoticeOf(last'[2])
                      /\ last'[2].pane = p /\ last'[2].data[2] = "sandboxed"
                 ELSE /\ \A i \in 1..Len(last') : last'[i].op # "pty:data"
                      /\ MapHas(ptySessions, p)
                           => /\ Len(last') = 2 /\ last'[2].op = "write"
                              /\ last'[2].id = MapGet(ptySessions, p)
                              /\ last'[2].data[Len(last'[2].data)] = "\r"
                              /\ ~(StartsWithLs(line) /\ procs[last'[2].id].exe = CmdExe)
                                   => last'[2].data = line \o <<"\r">>
                              /\ (StartsWithLs(line) /\ procs[last'[2].id].exe = CmdExe)
                                   => /\ last'[2].data[1] = "dir"
                                      /\ Tail(last'[2].data) = Tail(trim(line)) \o <<"\r">>]_vars

\* `rmdir /s project` has just been rejected in sandboxed mode on a pane
\* whose session is live
C13_Witness ==
  \E p \in ShellPanes :
    /\ Len(last) = 2
    /\ last[1] = EffData("shell:line", p, 0, RmdirProject)
    /\ NoticeOf(last[2]) /\ last[2].data[4] = HighRiskMessage
    /\ MapHas(ptySessions, p) /\ Running(MapGet(ptySessions, p))
    /\ getVault("executionMode") = "sandboxed"

(* C14: in every execution mode shell:line with the interrupt byte writes
   that byte alone, without a line terminator, to the process registered
   for the pane, and sends no policy notice. *)
C14_InterruptAlwaysWritten ==
  [][\A p \in ShellPanes :
       (Submitted(p)' /\ last'[1].data = Interrupt)
         => /\ getVault("executionMode") \in ExecutionModes
            /\ \A i \in 1..Len(last') : last'[i].op # "pty:data"
            /\ IF MapHas(ptySessions, p)
                 THEN /\ Len(last') = 2
                      /\ last'[2] = EffData("write", p, MapGet(ptySessions, p), Interrupt)
                      /\ procs[last'[2].id].pane = p
                      /\ procs[last'[2].id].state = "running"
                 ELSE Len(last') = 1]_vars

\* the interrupt byte has just been written to the live process of a pane
\* in sandboxed mode
C14_Witness ==
  \E p \in ShellPanes :
    /\ Len(last) = 2
    /\ last[1] = EffData("shell:line", p, 0, Interrupt)
    /\ last[2].op = "write" /\ last[2].data = Interrupt
    /\ MapHolds(ptySessions, p, last[2].id) /\ Running(last[2].id)
    /\ getVault("executionMode") = "sandboxed"

----------------------------------------------------------------------------
(* Properties of the events of an invocation, under SpecCall *)

\* the places in log of the agent:routed and agent:chunk events of id
Events(log, id) ==
  {i \in 1..Len(log) : log[i].id = id /\ log[i].op \in {"agent:routed", "agent:chunk"}}

DoneChunks(log, id) == {i \in Events(log, id) : log[i].event.done}

(* C15: an invocation that has not returned has sent no done chunk; the
   handler step in which it returns sends exactly one, after every other
   event of the invocation; a done chunk with an error has an empty body,
   and the invocation ends with one exactly when its last backend call
   threw. *)
C15_OneDoneChunkLast ==
  /\ [](\A id \in ReqIds :
          Suspended(id) => \A k \in 1..Len(reqs[id].emitted) :
                             reqs[id].emitted[k] \notin {"final", "error"})
  /\ [][\A id \in ReqIds :
          LET done == DoneChunks(last', id)
              ended == Suspended(id) /\ reqs'[id].pc = "free"
          IN /\ ended <=> done # {}
             /\ ended
                  => /\ Cardinality(done) = 1
                     /\ \A d \in done :
                          /\ \A i \in Events(last', id) : i <= d
                          /\ last'[d].op = "agent:chunk"
                          /\ last'[d].event.error # NoError
                               => last'[d].event.chunk = <<>>
                          /\ \A resp \in Responses :
                               (last'[1].answers = Append(reqs[id].answers, resp.status)
                                  /\ ResumeCall(reqs[id], resp).out = "throw")
                                 => last'[d].event.error # NoError]_vars

\* the second attempt of a local call has just failed and the invocation
\* has ended with the error chunk of that failure
C15_Witness ==
  /\ Len(last) >= 2
  /\ last[1].op = "resume" /\ last[1].arg = "local"
  /\ Len(last[1].answers) = 2
  /\ \E d \in DoneChunks(last, last[1].id) :
       last[d].event.error # NoError /\ last[d].event.error # Cancelled
  /\ reqs[last[1].id].pc = "free"

----------------------------------------------------------------------------
(* Termination of an invocation, under SpecAgentFair *)

\* the handler step that has just run ended invocation id with a done chunk
EndedWithDone(id) ==
  /\ Len(last) >= 2
  /\ last[1].op = "resume" /\ last[1].id = id
  /\ DoneChunks(last, id) # {}
  /\ reqs[id].pc = "free"

(* C16: every invocation that awaits a network request, aborted or not,
   superseded or not, eventually ends with a done chunk. *)
C16_EveryRequestEnds ==
  \A id \in ReqIds : Suspended(id) ~> EndedWithDone(id)

\* an invocation that was superseded while it awaited its first request has
\* just ended with its done chunk while its successor still awaits
C16_Witness ==
  \E id \in ReqIds, new \in ReqIds :
    /\ id # new
    /\ EndedWithDone(id)
    /\ Suspended(new) /\ MapHolds(activeAgentControllers, reqs[new].pane, new)

----------------------------------------------------------------------------
(* Response shaping, under SpecCall *)

(* C17: when the mode of the invocation is dual-stream and the text the
   backend returned contains [ACTION], the text is sent as two chunks, the
   first tagged thought, not done, with the text before the delimiter
   without its [THOUGHT] marker, the second tagged action, done, with the
   text after the delimiter; any other text is sent as one chunk tagged
   action, done, that starts with the label of the effective route and
   its model. *)
C17_ResponseShape ==
  [][\A id \in ReqIds, resp \in Responses, av \in AgentEncryption :
       (Suspended(id) /\ AgentResume(id, resp, av)
          /\ ResumeCall(reqs[id], resp).out = "return")
         => LET text == resp.body
                d == IndexOf(text, "[ACTION]")
                before == SubSeq(text, 1, d - 1)
                after == SubSeq(text, d + 1, Len(text))
                unmarked == SelectSeq(before, LAMBDA x : x # "[THOUGHT]")
                chunks == Sent(last', id, {"thought", "final"})
                local == reqs[id].pc = "local"
            IN IF reqs[id].mode = "dual-stream" /\ includes(text, "[ACTION]")
                 THEN /\ Cardinality(chunks) = 2
                      /\ \E t \in chunks, a \in chunks :
                           /\ t < a
                           /\ last'[t].event.stream = "thought" /\ ~last'[t].event.done
                           /\ trim(last'[t].event.chunk) = trim(unmarked)
                           /\ last'[a].event.stream = "action" /\ last'[a].event.done
                           /\ trim(last'[a].event.chunk) = trim(after)
                 ELSE /\ Cardinality(chunks) = 1
                      /\ \A a \in chunks :
                           /\ last'[a].event.stream = "action" /\ last'[a].event.done
                           /\ last'[a].event.chunk[1] = (IF local THEN "[Local:" ELSE "[Cloud:")
                           /\ last'[a].event.chunk[2] =
                                (IF local THEN getVault("localModel") ELSE getVault("cloudModel"))
                           /\ SubSeq(last'[a].event.chunk, 4, 3 + Len(text)) = text]_vars

----------------------------------------------------------------------------
(* The first notification of an invocation, under SpecAgent *)

(* C18: agent:run sends one routed notification that names the requested
   route and its configured model before the first network request of the
   invocation is issued; it is the first event of every invocation that
   awaits a request, whatever happens to the invocation later. *)
C18_RoutedBeforeRequest ==
  /\ [](\A id \in ReqIds :
          Suspended(id) => /\ Len(reqs[id].emitted) >= 1
                           /\ reqs[id].emitted[1] = reqs[id].route)
  /\ [][(Len(last') >= 1 /\ last'[1].op = "agent:run")
          => LET id == last'[1].id
                 route == last'[1].arg
                 routed == Places(last', "agent:routed", id)
             IN /\ route \in AgentRoutes
                /\ reqs[id].pc = "free"
                /\ Cardinality(routed) = 1
                /\ \A r \in routed :
                     /\ last'[r].event.route = route
                     /\ last'[r].event.model = (IF route = "local" THEN "Local" ELSE "Cloud")
                     /\ last'[r].event.modelName =
                          (IF route = "local" THEN getVault("localModel")
                                              ELSE getVault("cloudModel"))
                     /\ Places(last', "fetch", id) # {}
                     /\ \A f \in Places(last', "fetch", id) : r < f
                     /\ \A i \in Events(last', id) : r <= i]_vars

\* an invocation on the cloud route that fell back and was then cancelled
\* awaits its local request; its first event named cloud
C18_Witness ==
  \E id \in ReqIds :
    /\ Suspended(id) /\ reqs[id].pc = "local" /\ reqs[id].route = "cloud"
    /\ reqs[id].aborted
    /\ reqs[id].emitted[1] = "cloud"
    /\ reqs[id].calls["local"].fetches = 1

----------------------------------------------------------------------------
(* The cloud client without a key, under SpecCall *)

NoCloudKey == \A av \in AgentEncryption : decryptKey(getVault("cloudApiKeyEncrypted"), av) = ""

(* C19: while the vault holds no cloud key, no request is ever issued to the
   cloud endpoint: the cloud call of agent:run fails in the handler step
   that starts it, with the missing-credential error, before any await. *)
C19_NoKeyNoCloudRequest ==
  /\ [](NoCloudKey => \A id \in ReqIds : /\ reqs[id].calls["cloud"].fetches = 0
                                         /\ reqs[id].pc # "cloud")
  /\ [][(NoCloudKey /\ Len(last') >= 1 /\ last'[1].op = "agent:run" /\ last'[1].arg = "cloud")
          => LET id == last'[1].id
             IN /\ \A i \in 1..Len(last') : ~(last'[i].op = "fetch" /\ last'[i].arg = "cloud")
                /\ \E n \in Sent(last', id, {"notice"}) :
                     /\ last'[n].event.detail = MissingCredential
                     /\ last'[n - 1].op = "agent:routed"]_vars

\* agent:run on the cloud route has just run with no key in the vault and
\* its invocation awaits the local backend
C19_Witness ==
  /\ NoCloudKey
  /\ Len(last) >= 1
  /\ last[1].op = "agent:run" /\ last[1].arg = "cloud"
  /\ reqs[last[1].id].pc = "local"
  /\ reqs[last[1].id].calls["cloud"].fetches = 0

----------------------------------------------------------------------------
(* Spawn failure, under Spec *)

SpawnFailureChunks(log, p) ==
  {i \in 1..Len(log) : log[i].op = "pty:data" /\ log[i].pane = p
                         /\ log[i].arg = "Failed to start shell"}

(* C20: when pty.spawn throws, pane:create and pane:restart send exactly
   one pty:data chunk that reports the failure, leave the pane without a
   session and without a shell executable entry, start no process and
   return normally. *)
C20_SpawnFailureReported ==
  [][\A p \in Panes, ex \in ShellInstalls :
       /\ (~MapHas(ptySessions, p) /\ PaneCreate(p, FALSE, ex))
            => /\ ~MapHas(ptySessions', p) /\ ~MapHas(paneShellExe', p)
               /\ ptySessions' = ptySessions /\ procs' = procs
               /\ Len(last') = 2 /\ last'[1].op = "pane:create"
               /\ SpawnFailureChunks(last', p) = {2}
       /\ PaneRestart(p, FALSE, ex)
            => /\ ~MapHas(ptySessions', p) /\ ~MapHas(paneShellExe', p)
               /\ LiveSessions(p)' = {}
               /\ last'[1].op = "pane:restart"
               /\ SpawnFailureChunks(last', p) = {Len(last')}
               /\ \A i \in 1..Len(last') : last'[i].op \in {"pane:restart", "kill", "pty:data"}]_vars

\* pane:restart has just killed the session of a pane and failed to start
\* its replacement
C20_Witness ==
  \E p \in Panes :
    /\ Len(last) = 3
    /\ last[1].op = "pane:restart" /\ last[1].pane = p
    /\ last[2].op = "kill"
    /\ SpawnFailureChunks(last, p) = {3}
    /\ ~MapHas(ptySessions, p) /\ ~MapHas(paneShellExe, p)
    /\ procs[last[2].id].state = "killed"

----------------------------------------------------------------------------
(* Properties of the registry operations, under Spec *)

(* C21: pane:destroy kills the handle registered for the pane, if there is
   one, and leaves no entry for the pane in the session map or in the
   shell-executable map and no running process of the pane; it throws
   nothing.  On a pane with no session it leaves the registry and the
   processes as they are and calls nothing, and a pane:destroy that follows
   a pane:destroy of the same pane changes nothing at all. *)
C21_DestroyIdempotent ==
  [][\A p \in Panes :
       (Len(last') >= 1 /\ last'[1].op = "pane:destroy" /\ last'[1].pane = p) =>
         /\ Entries(ptySessions', p) = {}
         /\ Entries(paneShellExe', p) = {}
         /\ LiveSessions(p)' = {}
         /\ \A pid \in ProcIds :
              MapHolds(ptySessions, p, pid) =>
                /\ Running(pid) /\ procs'[pid].state = "killed"
                /\ Places(last', "kill", pid) = {2}
         /\ \A i \in 1..Len(last') : last'[i].arg # "throw"
         /\ ~MapHas(ptySessions, p) =>
              /\ UNCHANGED <<ptySessions, procs>>
              /\ MapDelete(paneShellExe, p) = paneShellExe'
              /\ \A i \in 1..Len(last') : last'[i].op # "kill"
         /\ (Len(last) >= 1 /\ last[1].op = "pane:destroy" /\ last[1].pane = p) =>
              /\ UNCHANGED <<vault, ptySessions, paneShellExe, activeAgentControllers, procs, reqs>>
              /\ last' = <<Eff("pane:destroy", p, 0, "")>>
    ]_vars

\* pane:destroy has just killed the session of p1, leaving no entry for it
C21_Witness ==
  /\ Len(last) = 2
  /\ last[1].op = "pane:destroy" /\ last[1].pane = "p1"
  /\ last[2].op = "kill" /\ procs[last[2].id].state = "killed"
  /\ Entries(ptySessions, "p1") = {} /\ Entries(paneShellExe, "p1") = {}

(* C22: pane:restart leaves the registry, the processes and the effects that
   destroyPtySession followed by createPtySession leave when they run from
   the same state with the same answers of the environment, and touches
   nothing else; the handle it registers was spawned by this step and is
   not the handle registered before, which has been killed. *)
C22_RestartIsDestroyThenCreate ==
  [][\A p \in Panes :
       (Len(last') >= 1 /\ last'[1].op = "pane:restart" /\ last'[1].pane = p) =>
         LET destroyed == [sessions |-> MapDelete(ptySessions, p),
                           exes |-> MapDelete(paneShellExe, p),
                           procs |-> ProcsAfterDestroy(p)]
         IN /\ \E ok \in BOOLEAN, ex \in ShellInstalls :
                 LET created == CreateResult(destroyed.sessions, destroyed.exes,
                                             destroyed.procs, p, ok, ex)
                 IN /\ ptySessions' = created.sessions
                    /\ paneShellExe' = created.exes
                    /\ procs' = created.procs
                    /\ SubSeq(last', 2, Len(last')) = DestroyEffects(p) \o created.eff
            /\ UNCHANGED <<vault, activeAgentControllers, reqs>>
            /\ \A pid \in ProcIds :
                 MapHolds(ptySessions', p, pid) =>
                   /\ ~MapHolds(ptySessions, p, pid)
                   /\ procs[pid].state = "free" /\ Running(pid)'
                   /\ Places(last', "spawn", pid) = {Len(last')}
            /\ \A old \in ProcIds :
                 MapHolds(ptySessions, p, old) =>
                   /\ procs'[old].state = "killed"
                   /\ Places(last', "kill", old) = {2}
    ]_vars

\* pane:restart has killed the session of p1 and registered a new handle
C22_Witness ==
  /\ Len(last) = 3
  /\ last[1].op = "pane:restart" /\ last[1].pane = "p1"
  /\ last[2].op = "kill" /\ last[3].op = "spawn" /\ last[2].id # last[3].id
  /\ procs[last[2].id].state = "killed"
  /\ MapHolds(ptySessions, "p1", last[3].id)

----------------------------------------------------------------------------
(* Properties of writes and resizes, under SpecShell *)

\* handler op for pane p is the handler that has just run
Handled(op, p) == Len(last) >= 1 /\ last[1].op = op /\ last[1].pane = p

(* C23: shell:line and pane:resize for a pane with no registered session
   write nothing, send no event and change no state, whatever the line and
   the execution mode. *)
C23_NoSessionNoEffect ==
  [][\A p \in ShellPanes :
       ((Handled("shell:line", p)' \/ Handled("pane:resize", p)') /\ ~MapHas(ptySessions, p))
         => /\ Len(last') = 1
            /\ UNCHANGED <<vault, ptySessions, paneShellExe, activeAgentControllers, procs, reqs>>
    ]_vars

(* C24: in every execution mode shell:input writes its input to the process
   registered for the pane exactly as given: a text that shell:line rejects
   in sandboxed mode is written, an ls command for cmd.exe stays ls, and
   no line terminator follows; it sends no policy notice and changes no
   state. *)
C24_RawInputVerbatim ==
  /\ [](Rejected(RmdirProject) /\ RmdirProject \in RawInputs /\ <<"ls">> \in RawInputs)
  /\ [][\A p \in ShellPanes :
          Handled("shell:input", p)' =>
            /\ getVault("executionMode") \in ExecutionModes
            /\ UNCHANGED <<vault, ptySessions, paneShellExe, activeAgentControllers, procs, reqs>>
            /\ \A i \in 1..Len(last') : last'[i].op # "pty:data"
            /\ IF MapHas(ptySessions, p)
                 THEN /\ Len(last') = 2
                      /\ last'[2] = EffData("write", p, MapGet(ptySessions, p), last'[1].data)
                      /\ procs[last'[2].id].pane = p
                 ELSE Len(last') = 1]_vars

\* `rmdir /s project` has just been written as raw input to the live
\* process of a pane in sandboxed mode
C24_Witness ==
  \E p \in ShellPanes :
    /\ Len(last) = 2
    /\ last[1] = EffData("shell:input", p, 0, RmdirProject)
    /\ last[2].op = "write" /\ last[2].data = RmdirProject
    /\ MapHolds(ptySessions, p, last[2].id) /\ Running(last[2].id)
    /\ getVault("executionMode") = "sandboxed"

(* C25: shell:line filters a line under the execution mode the vault holds
   when the line is submitted, whatever the mode was when the pane's
   session was spawned; a session is spawned with the working directory and
   the VIBE_ADE_MODE variable of the mode the vault holds at that moment,
   and neither changes as long as the process runs, vault:set included. *)
C25_ModeReadAtEachUse ==
  [][/\ \A p \in ShellPanes :
          LET line == last'[1].data
              mode == getVault("executionMode")
          IN /\ (Handled("shell:line", p)' /\ line # Interrupt) =>
                  IF mode = "sandboxed" /\ Rejected(line)
                    THEN /\ Len(last') = 2 /\ NoticeOf(last'[2])
                         /\ last'[2].data[2] = mode
                    ELSE /\ \A i \in 1..Len(last') : last'[i].op # "pty:data"
                         /\ MapHas(ptySessions, p)
                              => Len(last') = 2 /\ last'[2].op = "write"
             /\ Handled("pane:create", p)' =>
                  \A pid \in ProcIds :
                    Places(last', "spawn", pid) # {} =>
                      /\ procs'[pid].envMode = mode
                      /\ procs'[pid].cwd = IF mode = "system-wide" THEN HomeDir ELSE ProjectRoot
     /\ \A pid \in ProcIds :
          (Running(pid) /\ Running(pid)') =>
            /\ procs'[pid].cwd = procs[pid].cwd
            /\ procs'[pid].envMode = procs[pid].envMode
    ]_vars

\* a session spawned in system-wide mode, in the home directory, has just
\* had `rmdir /s project` rejected after the mode was set to sandboxed
C25_Witness ==
  \E p \in ShellPanes :
    /\ Len(last) = 2
    /\ last[1] = EffData("shell:line", p, 0, RmdirProject)
    /\ NoticeOf(last[2]) /\ last[2].data[2] = "sandboxed"
    /\ getVault("executionMode") = "sandboxed"
    /\ MapHas(ptySessions, p) /\ Running(MapGet(ptySessions, p))
    /\ procs[MapGet(ptySessions, p)].envMode = "system-wide"
    /\ procs[MapGet(ptySessions, p)].cwd = HomeDir

----------------------------------------------------------------------------
(* Properties of the panes side by side, under SpecPanes *)

(* C26: agent:cancel and pane:destroy abort the controller registered for
   the pane, once, and leave the pane without a registered controller; the
   other invocations are left as they are.  agent:cancel for a pane with no
   registered controller changes nothing and calls nothing, and it never
   touches the sessions; pane:destroy kills the pane's session in the same
   step. *)
C26_CancelAbortsAndRemoves ==
  [][\A p \in Panes :
       (Handled("agent:cancel", p)' \/ Handled("pane:destroy", p)') =>
         /\ Entries(activeAgentControllers', p) = {}
         /\ \A id \in ReqIds :
              IF MapHolds(activeAgentControllers, p, id)
                THEN /\ reqs[id].pc \in Backends /\ ~reqs[id].aborted
                     /\ reqs'[id] = [reqs[id] EXCEPT !.aborted = TRUE, !.callAborted = TRUE]
                     /\ Cardinality(Places(last', "abort", id)) = 1
                ELSE /\ reqs'[id] = reqs[id]
                     /\ Places(last', "abort", id) = {}
         /\ Handled("agent:cancel", p)' =>
              /\ UNCHANGED <<vault, ptySessions, paneShellExe, procs>>
              /\ ~MapHas(activeAgentControllers, p) =>
                   UNCHANGED activeAgentControllers /\ Len(last') = 1
         /\ Handled("pane:destroy", p)' =>
              /\ Entries(ptySessions', p) = {}
              /\ \A pid \in ProcIds :
                   MapHolds(ptySessions, p, pid) =>
                     procs'[pid].state = "killed" /\ Places(last', "kill", pid) = {2}
    ]_vars

\* pane:destroy has just killed the session of p1 and aborted the request
\* in flight for it
C26_Witness ==
  /\ Len(last) = 3
  /\ last[1].op = "pane:destroy" /\ last[1].pane = "p1"
  /\ last[2].op = "kill" /\ last[3].op = "abort"
  /\ reqs[last[3].id].aborted /\ reqs[last[3].id].pane = "p1"
  /\ Entries(activeAgentControllers, "p1") = {}

----------------------------------------------------------------------------
(* Properties of the routes, under SpecCall *)

(* C27: an invocation on the local route sends one routed notification,
   for local, issues requests to the local backend only and sends no
   fallback notice; when its local call fails, whether or not the
   invocation's controller has been aborted, the invocation ends in that
   step with the failure as its one done chunk. *)
C27_LocalRouteOnly ==
  /\ [](\A id \in ReqIds :
          (Suspended(id) /\ reqs[id].route = "local") =>
            /\ reqs[id].pc = "local" /\ reqs[id].effectiveRoute = "local"
            /\ reqs[id].calls["cloud"].fetches = 0
            /\ reqs[id].emitted = <<"local">>)
  /\ [][\A id \in ReqIds, resp \in Responses, av \in AgentEncryption :
          (Suspended(id) /\ reqs[id].route = "local" /\ AgentResume(id, resp, av))
            => LET oc == ResumeCall(reqs[id], resp)
               IN /\ \A i \in Places(last', "fetch", id) : last'[i].arg = "local"
                  /\ Places(last', "agent:routed", id) = {}
                  /\ Sent(last', id, {"notice"}) = {}
                  /\ oc.out = "throw" =>
                       /\ reqs'[id].pc = "free"
                       /\ Places(last', "fetch", id) = {}
                       /\ Cardinality(Sent(last', id, {"error"})) = 1
                       /\ \A i \in Sent(last', id, {"error"}) :
                            last'[i].event.error = oc.error /\ last'[i].event.done
                       /\ Sent(last', id, {"final", "thought"}) = {}]_vars
  /\ [][\A p \in AgentPanes :
          (Handled("agent:run", p)' /\ last'[1].arg = "local") =>
            LET id == last'[1].id
            IN /\ Cardinality(Places(last', "agent:routed", id)) = 1
               /\ \A r \in Places(last', "agent:routed", id) : last'[r].event.route = "local"
               /\ \A i \in Places(last', "fetch", id) : last'[i].arg = "local"
               /\ Sent(last', id, {"notice"}) = {}]_vars

\* the local call of an invocation on the local route has just failed after
\* the invocation was cancelled, and the invocation has ended with the error
C27_Witness ==
  /\ Len(last) >= 2
  /\ last[1].op = "resume" /\ last[1].arg = "local" /\ last[1].data = <<"local">>
  /\ Sent(last, last[1].id, {"error"}) # {}
  /\ Places(last, "unregister", last[1].id) = {}
  /\ reqs[last[1].id].pc = "free"

(* C28: a handler, callback or continuation that runs for one pane leaves
   the session entry, the shell-executable entry and the controller entry
   of every other pane as they are, together with the processes and the
   invocations of the other panes, and every call it makes and every event
   it sends carries its own pane identifier. *)
C28_PaneIsolation ==
  [][\A p \in Panes :
       (Len(last') >= 1 /\ last'[1].pane = p) =>
         /\ \A i \in 1..Len(last') : last'[i].pane = p
         /\ \A o \in Panes \ {p} :
              /\ Entries(ptySessions', o) = Entries(ptySessions, o)
              /\ Entries(paneShellExe', o) = Entries(paneShellExe, o)
              /\ Entries(activeAgentControllers', o) = Entries(activeAgentControllers, o)
              /\ \A pid \in ProcIds : procs[pid].pane = o => procs'[pid] = procs[pid]
              /\ \A id \in ReqIds : reqs[id].pane = o => reqs'[id] = reqs[id]
    ]_vars

\* pane:destroy has just killed the session of p1 and aborted its request
\* while p2 keeps its live session and its request in flight
C28_Witness ==
  /\ Len(last) = 3
  /\ last[1].op = "pane:destroy" /\ last[1].pane = "p1"
  /\ last[2].op = "kill" /\ last[3].op = "abort"
  /\ MapHas(ptySessions, "p2") /\ Running(MapGet(ptySessions, "p2"))
  /\ MapHas(paneShellExe, "p2")
  /\ MapHas(activeAgentControllers, "p2")
  /\ Suspended(MapGet(activeAgentControllers, "p2"))

----------------------------------------------------------------------------
(* Properties of the life of an invocation, under SpecAgentFair *)

(* C29: the life of an invocation, read from its closure: Idle (no
   invocation holds the slot), Local and Cloud (it awaits the backend of
   its route), FallbackLocal (a cloud-route invocation awaits the local
   backend).  An invocation leaves Idle in its agent:run step only, with
   the routed notification as its first event, for Local on the local
   route and for Cloud on the cloud route, or for FallbackLocal when the
   cloud call has failed in that step and the fallback notice was sent.
   Afterwards it moves in its own continuations only: Local and
   FallbackLocal to the end, Cloud to FallbackLocal, with the notice, or
   to the end; its route never changes.  The step in which it ends sends
   exactly one done chunk, the response or the error (a cancellation or
   another failure) and not both, and an invocation that has ended sends
   nothing and requests nothing any more.  Every invocation that awaits a
   backend comes to that end. *)
C29_RequestStateMachine ==
  /\ \A id \in ReqIds :
       Suspended(id) ~> (EndedWithDone(id) /\ Cardinality(DoneChunks(last, id)) = 1)
  /\ [][\A id \in ReqIds :
          LET State(q) == IF q.pc \notin Backends THEN "Idle"
                          ELSE IF q.pc = "cloud" THEN "Cloud"
                          ELSE IF q.route = "local" THEN "Local" ELSE "FallbackLocal"
              s == State(reqs[id])
              t == State(reqs'[id])
              ran == last'[1].op = "agent:run" /\ last'[1].id = id
              resumed == last'[1].op = "resume" /\ last'[1].id = id
              acts == Events(last', id) \cup Places(last', "fetch", id)
              notices == Sent(last', id, {"notice"})
              failed == Sent(last', id, {"error"})
              cancelled == {i \in failed : last'[i].event.error = Cancelled}
              completed == Sent(last', id, {"final"})
          IN Len(last') >= 1 =>
               /\ ran => s = "Idle"
               /\ resumed => s # "Idle"
               /\ (s = "Idle" /\ ~ran) => (t = "Idle" /\ acts = {})
               /\ (s = "Idle" /\ ran) =>
                    /\ t = (IF last'[1].arg = "local" THEN "Local"
                            ELSE IF notices = {} THEN "Cloud" ELSE "FallbackLocal")
                    /\ \E r \in Places(last', "agent:routed", id) : \A i \in acts : r <= i
                    /\ DoneChunks(last', id) = {}
               /\ (s # "Idle" /\ ~resumed) =>
                    /\ t = s /\ acts = {}
                    /\ reqs'[id] = reqs[id] \/ reqs'[id] = Abort(reqs[id])
               /\ (s # "Idle" /\ resumed) =>
                    /\ t \in (CASE s = "Local" -> {"Local", "Idle"}
                               [] s = "Cloud" -> {"Cloud", "FallbackLocal", "Idle"}
                               [] s = "FallbackLocal" -> {"FallbackLocal", "Idle"})
                    /\ t # "Idle" => reqs'[id].route = reqs[id].route
                    /\ (s = "Cloud" /\ t = "FallbackLocal") <=> notices # {}
                    /\ notices # {} => ~reqs[id].aborted
                    /\ IF t = "Idle"
                         THEN /\ Cardinality(DoneChunks(last', id)) = 1
                              /\ DoneChunks(last', id) = completed \cup failed
                              /\ Cardinality({k \in {completed, cancelled, failed \ cancelled} : k # {}}) = 1
                         ELSE DoneChunks(last', id) = {}
       ]_vars

\* an invocation on the cloud route has just completed with the response of
\* the local backend, after its cloud call failed
C29_Witness ==
  /\ Len(last) >= 3
  /\ last[1].op = "resume" /\ last[1].arg = "local" /\ last[1].data = <<"cloud">>
  /\ Sent(last, last[1].id, {"final"}) # {}
  /\ reqs[last[1].id].pc = "free"

----------------------------------------------------------------------------
(* Properties of the reported route, under SpecCall *)

(* C30: when an invocation ends with a response, the first routed
   notification it sent names the route it was given and the last one names
   the backend whose call returned the response; a response sent as one
   chunk starts with the label of that backend.  The two differ only for
   a cloud-route invocation answered by the local backend, which has then
   sent a second notification. *)
C30_EffectiveRouteReported ==
  [][\A id \in ReqIds :
       (Len(last') >= 1 /\ last'[1].op = "resume" /\ last'[1].id = id
          /\ Sent(last', id, {"final"}) # {}) =>
         LET backend == last'[1].arg
             requested == last'[1].data[1]
             before == SelectSeq(reqs[id].emitted, LAMBDA k : k \in AgentRoutes)
             now == Places(last', "agent:routed", id)
             lastRouted == IF now = {} THEN before[Len(before)]
                           ELSE last'[CHOOSE r \in now : \A x \in now : x <= r].event.route
         IN /\ requested = reqs[id].route /\ backend = reqs[id].pc
            /\ Len(before) = 1 /\ before[1] = requested
            /\ lastRouted = backend
            /\ \A r \in now : \A i \in Sent(last', id, {"thought", "final"}) : r < i
            /\ (backend # requested) <=> (now # {})
            /\ backend # requested => (requested = "cloud" /\ backend = "local")
            /\ Sent(last', id, {"thought"}) = {} =>
                 \A i \in Sent(last', id, {"final"}) :
                   last'[i].event.chunk[1] = (IF backend = "local" THEN "[Local:" ELSE "[Cloud:")
    ]_vars

\* a cloud-route invocation has just delivered the response of the local
\* backend as one chunk with the local label, after a notification for local
C30_Witness ==
  /\ Len(last) >= 3
  /\ last[1].op = "resume" /\ last[1].arg = "local" /\ last[1].data = <<"cloud">>
  /\ Places(last, "agent:routed", last[1].id) # {}
  /\ \E i \in Sent(last, last[1].id, {"final"}) : last[i].event.chunk[1] = "[Local:"

----------------------------------------------------------------------------
(* Properties of the settings vault, under SpecVault *)

(* C31: the stored credential is empty or ciphertext of the platform
   encryption facility, never the key in a plain encoding. *)
C31_CredentialEncryptedAtRest ==
  \/ getVault("cloudApiKeyEncrypted") = NoKey
  \/ getVault("cloudApiKeyEncrypted").enc = "safeStorage"

----------------------------------------------------------------------------
(* Properties of the slash command interceptor, under SpecInput *)

(* C32: a line whose trimmed form is "/local <prompt>" goes to the local
   agent route with that prompt, one whose trimmed form is
   "/cloud <prompt>" to the cloud agent route with that prompt, and every
   other line to the shell, unchanged. *)
C32_SlashCommandsRouted ==
  (Len(last) = 2 /\ last[1].op = "parseInputLine") =>
    LET line == last[1].data
        trimmed == trim(line)
        prompt == trim(Tail(trimmed))
        Form(cmd) == /\ Len(trimmed) >= 3
                     /\ trimmed[1] = cmd /\ trimmed[2] \in Whitespace
                     /\ prompt # <<>>
    IN /\ Form("/local") =>
            last[2].op = "agent" /\ last[2].arg = "local" /\ last[2].data = prompt
       /\ Form("/cloud") =>
            last[2].op = "agent" /\ last[2].arg = "cloud" /\ last[2].data = prompt
       /\ ~Form("/local") /\ ~Form("/cloud") =>
            last[2].op = "shell" /\ last[2].data = line

----------------------------------------------------------------------------
(* Properties of the command-name normalization, under SpecShell *)

(* C33: in every execution mode shell:line writes nothing for a line the
   policy rejects, however the line would be normalized; it writes an
   accepted ls command to a pane whose recorded shell is cmd.exe as the dir
   command with the same arguments, and every other accepted line, and
   every accepted line for another shell, as submitted; the policy is
   evaluated on the line as submitted. *)
C33_NormalizationForCmdOnly ==
  [][\A p \in ShellPanes :
       LET line == last'[1].data
           mode == getVault("executionMode")
           blocked == mode = "sandboxed" /\ Rejected(line)
           writes == {i \in 1..Len(last') : last'[i].op = "write"}
           cmd == MapHolds(paneShellExe, p, toLowerCase(CmdExe))
       IN (Submitted(p)' /\ line # Interrupt)
            => /\ mode \in ExecutionModes
               /\ blocked => writes = {}
               /\ (~blocked /\ MapHas(ptySessions, p))
                    => /\ writes = {2} /\ Len(last') = 2
                       /\ last'[2].id = MapGet(ptySessions, p)
                       /\ last'[2].data =
                            (IF cmd /\ StartsWithLs(line)
                               THEN <<"dir">> \o Tail(trim(line))
                               ELSE line) \o <<"\r">>]_vars

\* `ls src` has just been written as `dir src` to the cmd.exe session of a
\* pane in sandboxed mode
C33_Witness ==
  \E p \in ShellPanes :
    /\ Len(last) = 2
    /\ last[1] = EffData("shell:line", p, 0, <<"ls", " ", "src">>)
    /\ last[2].op = "write" /\ last[2].data = <<"dir", " ", "src", "\r">>
    /\ MapHolds(ptySessions, p, last[2].id)
    /\ MapHolds(paneShellExe, p, toLowerCase(CmdExe))
    /\ getVault("executionMode") = "sandboxed"

----------------------------------------------------------------------------
(* Properties of shell:line of the root application, under SpecRoot *)

(* C34, as claimed: in sandboxed mode shell:line of the root application
   writes nothing to the pane's process for `rmdir /s project` and the
   other lines that match a blocked pattern or the traversal pattern, and
   sends one policy notice instead. *)
C34_RootSandboxRejects ==
  /\ [](Rejected(RmdirProject) /\ RmdirProject \in ShellLines)
  /\ [][\A p \in ShellPanes :
          LET line == last'[1].data
          IN (/\ Submitted(p)' /\ line # Interrupt /\ Rejected(line)
              /\ getVault("executionMode") = "sandboxed")
               => /\ \A i \in 1..Len(last') : last'[i].op # "write"
                  /\ Len(last') = 2 /\ NoticeOf(last'[2])
                  /\ last'[2].pane = p]_vars

(* C34, amended: in every execution mode shell:line of the root application
   writes every line other than the interrupt byte, `rmdir /s project`
   included, to the process registered for the pane, followed by the line
   terminator and as submitted unless it is an ls command for cmd.exe, and
   sends no policy notice. *)
C34_RootWritesEveryLine ==
  [][\A p \in ShellPanes :
       LET line == last'[1].data
           cmd == MapHolds(paneShellExe, p, toLowerCase(CmdExe))
       IN (Submitted(p)' /\ line # Interrupt)
            => /\ getVault("executionMode") \in ExecutionModes
               /\ \A i \in 1..Len(last') : last'[i].op # "pty:data"
               /\ IF MapHas(ptySessions, p)
                    THEN /\ Len(last') = 2 /\ last'[2].op = "write"
                         /\ last'[2].id = MapGet(ptySessions, p)
                         /\ last'[2].data =
                              (IF cmd /\ StartsWithLs(line)
                                 THEN <<"dir">> \o Tail(trim(line))
                                 ELSE line) \o <<"\r">>
                    ELSE Len(last') = 1]_vars

\* `rmdir /s project` has just been written to the live process of a pane
\* of the root application in sandboxed mode
C34_Witness ==
  \E p \in ShellPanes :
    /\ Len(last) = 2
    /\ last[1] = EffData("shell:line", p, 0, RmdirProject)
    /\ last[2].op = "write" /\ last[2].data = RmdirProject \o <<"\r">>
    /\ MapHolds(ptySessions, p, last[2].id) /\ Running(last[2].id)
    /\ getVault("executionMode") = "sandboxed"

----------------------------------------------------------------------------
(* Properties of the controller registry, under SpecAgent *)

(* C35: the controller registered for a pane is not aborted and belongs to
   an invocation of that pane that has not returned; an entry is made by
   agent:run alone, for the invocation it starts, and every agent:run that
   leaves an invocation suspended leaves it registered, so the entry is the
   pane's most recently started invocation; an invocation that returns
   leaves another invocation's entry in place; a pane with no invocation
   outstanding has no entry. *)
C35_TokenOfNewestRequest ==
  /\ [](\A p \in AgentPanes :
          /\ Cardinality(Entries(activeAgentControllers, p)) <= 1
          /\ \A id \in ReqIds :
               MapHolds(activeAgentControllers, p, id)
                 => Suspended(id) /\ reqs[id].pane = p /\ ~reqs[id].aborted
          /\ Outstanding(p) = {} => Entries(activeAgentControllers, p) = {})
  /\ [][\A p \in AgentPanes, id \in ReqIds :
          /\ (MapHolds(activeAgentControllers', p, id) /\ ~MapHolds(activeAgentControllers, p, id))
               => Handled("agent:run", p)' /\ last'[1].id = id
          /\ (Handled("agent:run", p)' /\ last'[1].id = id /\ Suspended(id)')
               => MapHolds(activeAgentControllers', p, id)
          /\ (last'[1].op = "resume" /\ last'[1].id # id /\ MapHolds(activeAgentControllers, p, id))
               => MapHolds(activeAgentControllers', p, id)]_vars

\* a superseded invocation has just returned while the invocation that
\* superseded it is still suspended and registered for the pane
C35_Witness ==
  \E p \in AgentPanes, new \in ReqIds :
    /\ Len(last) >= 2 /\ last[1].op = "resume" /\ last[1].pane = p
    /\ last[1].id # new /\ reqs[last[1].id].pc = "free"
    /\ MapHolds(activeAgentControllers, p, new) /\ Suspended(new)

----------------------------------------------------------------------------
(* Properties of the exit of a process, under Spec *)

(* C36: the exit notification of a process that was running, which is the
   registered process of its pane, removes the pane's entries from both
   registry maps and sends one pty:exit event for the pane; pane:create
   for a pane with no entry, such as that one, attempts a spawn and
   registers the process it gets; the exit notification of a process that
   pane:destroy or pane:restart has killed sends no pty:exit event. *)
C36_ExitUnregistersAndNotifies ==
  /\ [](\A pid \in ProcIds : Running(pid) => MapHolds(ptySessions, procs[pid].pane, pid))
  /\ [][\A p \in Panes :
          /\ Handled("onExit", p)' =>
               LET pid == last'[1].id
                   exits == Places(last', "pty:exit", pid)
               IN /\ procs[pid].pane = p /\ procs'[pid] = NoProc
                  /\ procs[pid].state = "running"
                       => /\ Entries(ptySessions', p) = {} /\ Entries(paneShellExe', p) = {}
                          /\ Cardinality(exits) = 1 /\ Len(last') = 2
                          /\ last'[2].pane = p
                  /\ procs[pid].state = "killed"
                       => /\ \A i \in 1..Len(last') : last'[i].op # "pty:exit"
                          /\ UNCHANGED <<ptySessions, paneShellExe>>
          /\ (Handled("pane:create", p)' /\ ~MapHas(ptySessions, p)) =>
               \/ \E pid \in ProcIds :
                    /\ Places(last', "spawn", pid) # {} /\ procs[pid].state = "free"
                    /\ MapHolds(ptySessions', p, pid) /\ Running(pid)'
               \/ /\ \E i \in 1..Len(last') : last'[i].op = "pty:data"
                  /\ UNCHANGED <<ptySessions, paneShellExe, procs>>]_vars

\* the registered process of a pane has just exited on its own while the
\* process that pane:restart killed before it still awaits its notification
C36_Witness ==
  \E p \in Panes, old \in ProcIds :
    /\ Len(last) = 2 /\ last[1].op = "onExit" /\ last[1].pane = p
    /\ last[2].op = "pty:exit" /\ last[2].pane = p
    /\ Entries(ptySessions, p) = {} /\ Entries(paneShellExe, p) = {}
    /\ procs[old].pane = p /\ procs[old].state = "killed"

(* C37: every chunk of process output sent on a pane's channel comes from
   the process registered for that pane; none comes from a process that
   pane:restart or pane:destroy has superseded. *)
C37_OutputOfRegisteredProcessOnly ==
  \A i \in 1..Len(last) :
    (last[1].op = "onData" /\ last[i].op = "pty:data")
      => MapHolds(ptySessions, last[i].pane, last[i].id)

----------------------------------------------------------------------------
(* Further properties of the settings vault, under SpecVault *)

(* C38: after any sequence of vault:set calls, accepted or rejected, a
   stored execution mode of system-wide comes with a stored
   acknowledgement. *)
C38_SystemWideAcknowledged ==
  getVault("executionMode") = "system-wide" => getVault("systemWideAcknowledged")

----------------------------------------------------------------------------
(* Properties of a request timeout, under SpecCall *)

(* C39: when the request an invocation awaits times out and the
   invocation's controller is not aborted, a first attempt is followed by
   one more request to the same backend and nothing else; a second attempt
   ends the call with the timeout as its failure, which ends an invocation
   whose call was to the local backend with that failure as its done chunk
   and makes an invocation on the cloud route fall back to the local
   backend with the failure in its notice; the controller stays
   unaborted and registered and no event carries the cancelled failure. *)
C39_TimeoutIsFailedAttempt ==
  [][\A id \in ReqIds :
       LET q == reqs[id]
           timeout == FetchRejection("timeout")
           fetches(b) == {i \in 1..Len(last') :
                            last'[i].op = "fetch" /\ last'[i].id = id /\ last'[i].arg = b}
       IN (/\ Len(last') >= 1 /\ last'[1].op = "resume" /\ last'[1].id = id
           /\ last'[1].answers[Len(last'[1].answers)] = 0
           /\ ~q.aborted)
            => /\ ~q.callAborted
               /\ Places(last', "abort", id) = {}
               /\ \A i \in Events(last', id) :
                    last'[i].event.error # Cancelled /\ last'[i].event.detail # Cancelled
               /\ Len(last'[1].answers) \in 1..MaxAttempts
               /\ Len(last'[1].answers) = 1
                    => /\ Len(last') = 2 /\ fetches(q.pc) = {2}
                       /\ reqs'[id] = [q EXCEPT !.attempt = 1, !.lastError = timeout,
                                                !.answers = <<0>>,
                                                !.calls[q.pc].fetches = @ + 1]
                       /\ UNCHANGED activeAgentControllers
               /\ (Len(last'[1].answers) = 2 /\ q.pc = "local")
                    => /\ reqs'[id].pc = "free"
                       /\ fetches("local") = {} /\ fetches("cloud") = {}
                       /\ Cardinality(Events(last', id)) = 1
                       /\ \A i \in Events(last', id) :
                            last'[i].event = ErrorEvent(timeout)
               /\ (Len(last'[1].answers) = 2 /\ q.pc = "cloud")
                    => /\ reqs'[id].pc = "local" /\ ~reqs'[id].aborted
                       /\ fetches("cloud") = {} /\ Cardinality(fetches("local")) = 1
                       /\ Cardinality(Events(last', id)) = 1
                       /\ \A i \in Events(last', id) :
                            last'[i].event = FallbackEvent(timeout)
                       /\ MapHolds(activeAgentControllers', q.pane, id)]_vars

\* a cloud call whose two attempts timed out has just fallen back to the
\* local backend
C39_Witness ==
  /\ Len(last) = 3
  /\ last[1].op = "resume" /\ last[1].arg = "cloud" /\ last[1].answers = <<0, 0>>
  /\ last[2].op = "agent:chunk" /\ last[2].event = FallbackEvent(FetchRejection("timeout"))
  /\ last[3] = Eff("fetch", last[1].pane, last[1].id, "local")
  /\ reqs[last[1].id].pc = "local" /\ ~reqs[last[1].id].aborted

----------------------------------------------------------------------------
(* Properties of the model names shown, under SpecModel *)

(* C40: the model name of a routed notification sent when a backend call
   has been issued or has returned, and the model name in the label of the
   final chunk, is the model name that call sent to its backend, whatever
   vault:set has stored since. *)
C40_ModelShownIsModelSent ==
  [][\A id \in ReqIds :
       /\ (Len(last') >= 1 /\ last'[1].op = "agent:run" /\ last'[1].id = id /\ Suspended(id)')
            => \A i \in Places(last', "agent:routed", id) :
                 reqs'[id].pc = last'[i].event.route
                   => last'[i].event.modelName = reqs'[id].calls[reqs'[id].pc].model
       /\ (Len(last') >= 1 /\ last'[1].op = "resume" /\ last'[1].id = id)
            => LET sent == reqs[id].calls[reqs[id].pc].model
               IN /\ \A i \in Places(last', "agent:routed", id) :
                       last'[i].event.modelName = sent
                  /\ \A i \in Sent(last', id, {"final"}) :
                       last'[i].event.chunk[1] \in {"[Local:", "[Cloud:"}
                         => last'[i].event.chunk[2] = sent]_vars

====
